---------------------------- MODULE Spec2Model ----------------------------
(***************************************************************************)
(* A model of the retrieval pipeline of minhaz-engg/scrape-scheduler:      *)
(* the combined-corpus builder, the corpus parser, the cached BM25 index   *)
(* build and the filter-and-rank search of app_openai.py / app_google.py   *)
(* (app.py where it differs).                                              *)
(*                                                                         *)
(* Representation.  Optional[T] is a sequence: None is <<>>, a value v is  *)
(* <<v>>.  Prices are whole BDT, ratings are tenths (45 is 4.5).  A text   *)
(* is the sequence of its whitespace-separated items; an item is a tagged  *)
(* token, W(s) for a run of letters, N(n) for a run of digits, Sym(x) for *)
(* a run of other characters.  BM25 scores (rank_bm25, an external         *)
(* library) are integers in units of 1/20, so that the 10% and 5% boosts   *)
(* are exact.  sha1 is taken to be injective: a digest is modelled by the  *)
(* value that was hashed.                                                  *)
(***************************************************************************)
EXTENDS Integers, Sequences, FiniteSets, TLC

VARIABLES
    chunks,       \* the chunk table the search runs on (list of ChunkRec)
    ui,           \* the widget values the search handler read, if it made the call
    args,         \* the arguments of the bm25_search call in progress
    pc,           \* position inside bm25_search
    scores,       \* bm25_search: what bm25.get_scores returned
    pairs,        \* bm25_search: the filtered, boosted, sorted (i, score) list
    diversified,  \* bm25_search: the list the diversify loops build
    seen_docs,    \* bm25_search: doc_ids taken by the one-per-doc loop
    result,       \* the list bm25_search returned: entries (i, s) for (chunks[i], s)
    index_dir,    \* the meta_<sig>.pkl files of the index directory
    products,     \* build_or_load_bm25: the products of the latest call
    chunk_table,  \* build_or_load_bm25: the chunk table the latest call returned
    session,      \* the browser sessions: each one's position in build_or_load_bm25
    bm25_pkls,    \* the bm25_<sig>.pkl files of the index directory
    open_pkls,    \* the files of the index directory a session has open for writing
    raw_items,    \* corpus builder: the scraped items, Daraz files before the StarTech rows
    next_item,    \* corpus builder: the item the loops of main() are at
    seen_ids,     \* corpus builder: main()'s seen_ids
    all_unified_products,  \* corpus builder: main()'s list of kept products
    md_text,      \* the blocks of combined_corpus.md, once written
    parsed,       \* what parse_combined_products_from_md made of md_text
    stage,        \* corpus builder and parser: "unify", "written", "parsed", "raised"
    piece,        \* product_to_chunks: the piece of text the loop is at, if any
    piece_chunks, \* product_to_chunks: the chunks made of the piece
    tok_text,     \* _tokenize: a text, as its characters
    corpus_toks,  \* _tokenize: the tokens of the text as a chunk text of the index build
    query_toks,   \* _tokenize: the tokens of the text as the query of a search
    price_text,   \* _parse_price_value: the display string, as its characters
    price_out,    \* _parse_price_value: what the call returned, once it has
    scraper_pc,     \* run_scraper: "start", "loop", "returned"
    chunk_results,  \* run_scraper: what process_category_chunk does for each category chunk
    chunk_i,        \* run_scraper: the category chunk the loop is at
    all_products,   \* run_scraper: the buffer, as the runs of products the chunks returned
    csv_batches,    \* the lists handed to save_products_csv, in order
    detail_pc,      \* scrape_product_detail: "start", "attempt", "delay", "returned", "raised"
    detail_url,     \* scrape_product_detail: its argument
    attempt,        \* scrape_product_detail: the loop variable
    browser,        \* scrape_product_detail: whether the local is bound yet
    attempt_log,    \* what each attempt made so far ended in
    delays,         \* the attempts after which a retry delay was slept
    detail_ret,     \* what scrape_product_detail returned
    first_call    \* what an earlier bm25_search call with the same arguments read and returned

searchVars == <<chunks, ui, args, pc, scores, pairs, diversified, seen_docs, result>>
sessionVars == <<session, bm25_pkls, open_pkls>>
indexVars == <<index_dir, products, chunk_table, sessionVars>>
corpusVars == <<raw_items, next_item, seen_ids, all_unified_products, md_text, parsed, stage>>

chunkVars == <<piece, piece_chunks>>
tokVars == <<tok_text, corpus_toks, query_toks>>
priceVars == <<price_text, price_out>>
scraperVars == <<scraper_pc, chunk_results, chunk_i, all_products, csv_batches>>
detailVars == <<detail_pc, detail_url, attempt, browser, attempt_log, delays, detail_ret>>
scrapeVars == <<scraperVars, detailVars>>
utilVars == <<tokVars, priceVars, first_call, scrapeVars>>

vars == <<searchVars, indexVars, corpusVars, chunkVars, utilVars>>

\* The browser sessions running the script at a time
MaxSessions == 2

\* The index directory and the corpus builder left alone
IdleSession == [pc |-> "idle", ps |-> <<>>, all_chunks |-> <<>>, ret |-> <<>>]
SessionsIdle ==
    /\ session = [t \in 1..MaxSessions |-> IdleSession]
    /\ bm25_pkls = {} /\ open_pkls = {}
IndexUnused ==
    /\ index_dir = {} /\ products = <<>> /\ chunk_table = <<>>
    /\ SessionsIdle
ChunkUnused == piece = <<>> /\ piece_chunks = <<>>
TokUnused == tok_text = <<>> /\ corpus_toks = <<>> /\ query_toks = <<>>
PriceUnused == price_text = <<>> /\ price_out = <<>>
ScraperUnused ==
    /\ scraper_pc = "start" /\ chunk_results = <<>> /\ chunk_i = 1
    /\ all_products = <<>> /\ csv_batches = <<>>
DetailUnused ==
    /\ detail_pc = "start" /\ detail_url = <<>> /\ attempt = 1 /\ browser = "unbound"
    /\ attempt_log = <<>> /\ delays = <<>> /\ detail_ret = <<>>
ScrapeUnused == ScraperUnused /\ DetailUnused
UtilUnused == TokUnused /\ PriceUnused /\ first_call = <<>> /\ ScrapeUnused
CorpusUnused ==
    /\ raw_items = <<>> /\ next_item = 1 /\ seen_ids = {}
    /\ all_unified_products = <<>> /\ md_text = <<>> /\ parsed = <<>>
    /\ stage = "unify"

-----------------------------------------------------------------------------
(* Bounds of the model *)

MaxChunks == 3
MaxTopK == 3

-----------------------------------------------------------------------------
(* Python values *)

None == <<>>
Some(v) == <<v>>
Val(o) == o[1]

W(s) == [k |-> "w", w |-> s, n |-> 0]
N(i) == [k |-> "n", w |-> "", n |-> i]
Sym(x) == [k |-> "s", w |-> x, n |-> 0]
Url(x) == [k |-> "u", w |-> x, n |-> 0]
Sp == [k |-> "sp", w |-> "", n |-> 0]
\* The decimal numeral "i.f" with one digit f behind the point: n is in tenths
Dec(i, f) == [k |-> "d", w |-> "", n |-> 10 * i + f]
Img == [k |-> "i", w |-> "**Images", n |-> 0]

Range(s) == {s[i] : i \in 1..Len(s)}

Min2(a, b) == IF a <= b THEN a ELSE b
Max2(a, b) == IF a >= b THEN a ELSE b

\* str.lower() on the words of the model's vocabulary
LowerWord(s) ==
    CASE s = "Gaming" -> "gaming"
      [] s = "Laptop" -> "laptop"
      [] s = "X" -> "x"
      [] s = "Office" -> "office"
      [] s = "Chair" -> "chair"
      [] s = "Bag" -> "bag"
      [] s = "Mouse" -> "mouse"
      [] s = "Source" -> "source"
      [] s = "Category" -> "category"
      [] s = "Price" -> "price"
      [] s = "Daraz" -> "daraz"
      [] s = "StarTech" -> "startech"
      [] s = "The" -> "the"
      [] s = "Between" -> "between"
      [] s = "Rating" -> "rating"
      [] s = "Great" -> "great"
      [] s = "IS" -> "is"
      [] OTHER -> s

Lower(t) == IF t.k = "w" THEN W(LowerWord(t.w)) ELSE t

\* The characters of the category strings and needles of the model
Chars(s) ==
    CASE s = "" -> <<>>
      [] s = "Laptop" -> <<"L", "a", "p", "t", "o", "p">>
      [] s = "Chair" -> <<"C", "h", "a", "i", "r">>
      [] s = "lap" -> <<"l", "a", "p">>
      [] s = "LAP" -> <<"L", "A", "P">>
      [] s = "mice" -> <<"m", "i", "c", "e">>
      [] s = "the" -> <<"t", "h", "e">>
      [] s = "a" -> <<"a">>
      [] s = "an" -> <<"a", "n">>
      [] s = "and" -> <<"a", "n", "d">>
      [] s = "or" -> <<"o", "r">>
      [] s = "of" -> <<"o", "f">>
      [] s = "for" -> <<"f", "o", "r">>
      [] s = "on" -> <<"o", "n">>
      [] s = "in" -> <<"i", "n">>
      [] s = "to" -> <<"t", "o">>
      [] s = "from" -> <<"f", "r", "o", "m">>
      [] s = "with" -> <<"w", "i", "t", "h">>
      [] s = "by" -> <<"b", "y">>
      [] s = "at" -> <<"a", "t">>
      [] s = "is" -> <<"i", "s">>
      [] s = "are" -> <<"a", "r", "e">>
      [] s = "was" -> <<"w", "a", "s">>
      [] s = "were" -> <<"w", "e", "r", "e">>
      [] s = "this" -> <<"t", "h", "i", "s">>
      [] s = "that" -> <<"t", "h", "a", "t">>
      [] s = "these" -> <<"t", "h", "e", "s", "e">>
      [] s = "those" -> <<"t", "h", "o", "s", "e">>
      [] s = "it" -> <<"i", "t">>
      [] s = "its" -> <<"i", "t", "s">>
      [] s = "as" -> <<"a", "s">>
      [] s = "be" -> <<"b", "e">>
      [] s = "can" -> <<"c", "a", "n">>
      [] s = "will" -> <<"w", "i", "l", "l">>
      [] s = "has" -> <<"h", "a", "s">>
      [] s = "have" -> <<"h", "a", "v", "e">>
      [] s = "gaming" -> <<"g", "a", "m", "i", "n", "g">>
      [] s = "laptop" -> <<"l", "a", "p", "t", "o", "p">>
      [] s = "great" -> <<"g", "r", "e", "a", "t">>

LowerChar(c) ==
    CASE c = "L" -> "l"
      [] c = "C" -> "c"
      [] c = "A" -> "a"
      [] c = "P" -> "p"
      [] OTHER -> c

LowerChars(cs) == [i \in 1..Len(cs) |-> LowerChar(cs[i])]

\* Python's `a in b` on strings
IsSubstring(a, b) ==
    \E off \in 0..(Len(b) - Len(a)) :
        \A i \in 1..Len(a) : b[off + i] = a[i]

-----------------------------------------------------------------------------
(* Tokenizer *)

STOPWORDS ==
    {"the", "a", "an", "and", "or", "of", "for", "on", "in", "to", "from",
     "with", "by", "at", "is", "are", "was", "were", "this", "that", "these",
     "those", "it", "its", "as", "be", "can", "will", "has", "have"}

IsStopword(t) == t.k = "w" /\ t.w \in STOPWORDS

\* The items [A-Za-z0-9_]+ finds, less the stopwords: a symbol gives none, a
\* URL https://x gives "https" and "x", a decimal numeral its two digit runs
RECURSIVE DropStopwords(_)
DropStopwords(ts) ==
    IF ts = <<>> THEN <<>>
    ELSE IF Head(ts).k \in {"s", "sp"} \/ IsStopword(Head(ts))
         THEN DropStopwords(Tail(ts))
    ELSE IF Head(ts).k = "i" THEN <<W("images")>> \o DropStopwords(Tail(ts))
    ELSE IF Head(ts).k = "u"
         THEN <<W("https"), W(LowerWord(Head(ts).w))>> \o DropStopwords(Tail(ts))
    ELSE IF Head(ts).k = "d"
         THEN <<N(Head(ts).n \div 10), N(Head(ts).n % 10)>> \o DropStopwords(Tail(ts))
    ELSE <<Head(ts)>> \o DropStopwords(Tail(ts))

\* _tokenize on a text given as its items
_tokenize(text) == DropStopwords([i \in 1..Len(text) |-> Lower(text[i])])


-----------------------------------------------------------------------------
(* Parsed records and the chunk table *)

\* ProductDoc records as parse_combined_products_from_md returns them.  Every
\* StarTech record of the combined corpus carries the doc_id "startech_https"
\* (see ParseDocId below); a record of a foreign corpus may lack every
\* optional field.
LaptopDoc ==
    [doc_id |-> "daraz_1", title |-> <<W("Gaming"), W("Laptop"), W("X")>>,
     source |-> Some("Daraz"), category |-> Some("Laptop"),
     price_value |-> Some(95000), rating_avg |-> Some(45), url |-> None]

ChairDoc ==
    [doc_id |-> "startech_https", title |-> <<W("Office"), W("Chair")>>,
     source |-> Some("StarTech"), category |-> Some("Chair"),
     price_value |-> Some(3000), rating_avg |-> None, url |-> Some("u2")]

BagDoc ==
    [doc_id |-> "startech_https", title |-> <<W("Laptop"), W("Bag")>>,
     source |-> Some("StarTech"), category |-> Some("Laptop"),
     price_value |-> Some(1500), rating_avg |-> Some(38), url |-> Some("u3")]

BareDoc ==
    [doc_id |-> "x_9", title |-> <<W("Mouse"), Url("img")>>,
     source |-> None, category |-> None,
     price_value |-> None, rating_avg |-> None, url |-> None]

ProductPool == {LaptopDoc, ChairDoc, BagDoc, BareDoc}

\* raw_md: the title line and, when any of them is set, the line
\* "Source: .. • Category: .. • Price: ~৳.." (the words of it)
raw_md(p) ==
    LET meta == (IF p.source # None /\ Val(p.source) # ""
                 THEN <<W("Source"), W(Val(p.source))>> ELSE <<>>)
             \o (IF p.category # None /\ Val(p.category) # ""
                 THEN <<W("Category"), W(Val(p.category))>> ELSE <<>>)
             \o (IF p.price_value # None
                 THEN <<W("Price"), N(Val(p.price_value))>> ELSE <<>>)
    IN  IF meta # <<>> THEN <<p.title, meta>> ELSE <<p.title>>

\* line.strip()
RECURSIVE LStrip(_)
LStrip(ts) == IF ts # <<>> /\ Head(ts).k = "sp" THEN LStrip(Tail(ts)) ELSE ts

RECURSIVE RStrip(_)
RStrip(ts) ==
    IF ts # <<>> /\ ts[Len(ts)].k = "sp" THEN RStrip(SubSeq(ts, 1, Len(ts) - 1))
    ELSE ts

\* re.split(r"\s+https?://\S+", ll): the URLs that follow white space go
RECURSIVE StripUrls(_)
StripUrls(ts) ==
    IF ts = <<>> THEN <<>>
    ELSE (IF Head(ts).k = "u" THEN <<>> ELSE <<Head(ts)>>) \o StripUrls(Tail(ts))

\* The round of the loop of _clean_for_bm25 for one line: <<>> for a line
\* that is dropped (blank, or starting with "**images"); of a line with URLs
\* the item at the very start stays, whatever it is, and the URLs behind it
\* are cut out
CleanLine(line) ==
    LET ll == RStrip(LStrip(line))
    IN  IF ll = <<>> THEN <<>>
        ELSE IF Head(ll).k = "i" THEN <<>>
        ELSE IF \E a \in 1..Len(ll) : ll[a].k = "u"
             THEN <<Head(ll)>> \o StripUrls(Tail(ll))
        ELSE ll

\* _clean_for_bm25: the lines kept, joined by "\n"
RECURSIVE _clean_for_bm25(_)
_clean_for_bm25(text) ==
    IF text = <<>> THEN <<>>
    ELSE (IF CleanLine(Head(text)) = <<>> THEN <<>> ELSE <<CleanLine(Head(text))>>)
         \o _clean_for_bm25(Tail(text))

\* The items of a text of several lines
RECURSIVE Flat(_)
Flat(lines) == IF lines = <<>> THEN <<>> ELSE Head(lines) \o Flat(Tail(lines))

\* The loop of product_to_chunks for one piece the chunker returned, with the
\* `if not indexed_text: continue` left out
PieceToChunks_KeepEmpty(p, txt) ==
    IF \A a \in 1..Len(txt) : RStrip(LStrip(txt[a])) = <<>> THEN <<>>
    ELSE << [doc_id |-> p.doc_id, title |-> p.title, source |-> p.source,
             category |-> p.category, price_value |-> p.price_value,
             rating_avg |-> p.rating_avg, url |-> p.url,
             text |-> Flat(_clean_for_bm25(txt))] >>

\* The loop of product_to_chunks for one piece the chunker returned: a piece
\* that is blank, or has no text left after cleaning, yields no chunk; the
\* other fields are copied from the product
PieceToChunks(p, txt) ==
    LET indexed_text == _clean_for_bm25(txt)
    IN  IF \A a \in 1..Len(txt) : RStrip(LStrip(txt[a])) = <<>> THEN <<>>
        ELSE IF indexed_text = <<>> THEN <<>>
        ELSE << [doc_id |-> p.doc_id, title |-> p.title, source |-> p.source,
                 category |-> p.category, price_value |-> p.price_value,
                 rating_avg |-> p.rating_avg, url |-> p.url,
                 text |-> Flat(indexed_text)] >>

\* product_to_chunks: the chunker returns the short raw_md as one piece
product_to_chunks(p) == PieceToChunks(p, raw_md(p))

RECURSIVE all_chunks(_)
all_chunks(ps) ==
    IF ps = <<>> THEN <<>>
    ELSE product_to_chunks(Head(ps)) \o all_chunks(Tail(ps))

\* The parsed corpora: up to MaxChunks records of the pool, none twice
ProductLists ==
    UNION { {ps \in [1..n -> ProductPool] :
                \A a, b \in 1..n : a # b => ps[a] # ps[b]} : n \in 1..MaxChunks }

-----------------------------------------------------------------------------
(* Filters *)

\* Python truthiness of an Optional[set] / Optional[str]
TruthySet(o) == o # None /\ Val(o) # {}
TruthyStr(o) == o # None /\ Val(o) # ""

\* `x not in S` for an Optional[str] x and a set S of strings
NotIn(x, S) == x = None \/ Val(x) \notin S

\* _passes_filters with the `is not None` guards of the price bounds left out:
\* a chunk without price fails price_min and price_max
_passes_filters_PriceRequired(chunk, F) ==
    /\ ~(TruthySet(F.allowed_sources) /\ NotIn(chunk.source, Val(F.allowed_sources)))
    /\ ~(TruthySet(F.allowed_categories)
            /\ NotIn(chunk.category, Val(F.allowed_categories)))
    /\ ~(TruthyStr(F.category_contains)
            /\ LET cc == LowerChars(Chars(IF TruthyStr(chunk.category)
                                          THEN Val(chunk.category) ELSE ""))
               IN  ~IsSubstring(LowerChars(Chars(Val(F.category_contains))), cc))
    /\ ~(F.price_min # None
            /\ (chunk.price_value = None \/ Val(chunk.price_value) < Val(F.price_min)))
    /\ ~(F.price_max # None
            /\ (chunk.price_value = None \/ Val(chunk.price_value) > Val(F.price_max)))
    /\ ~(F.rating_min # None /\ chunk.rating_avg # None
            /\ Val(chunk.rating_avg) < Val(F.rating_min))

\* _passes_filters with the comparison of price_max turned round
_passes_filters_MaxAsMin(chunk, F) ==
    /\ ~(TruthySet(F.allowed_sources) /\ NotIn(chunk.source, Val(F.allowed_sources)))
    /\ ~(TruthySet(F.allowed_categories)
            /\ NotIn(chunk.category, Val(F.allowed_categories)))
    /\ ~(TruthyStr(F.category_contains)
            /\ LET cc == LowerChars(Chars(IF TruthyStr(chunk.category)
                                          THEN Val(chunk.category) ELSE ""))
               IN  ~IsSubstring(LowerChars(Chars(Val(F.category_contains))), cc))
    /\ ~(F.price_min # None /\ chunk.price_value # None
            /\ Val(chunk.price_value) < Val(F.price_min))
    /\ ~(F.price_max # None /\ chunk.price_value # None
            /\ Val(chunk.price_value) < Val(F.price_max))
    /\ ~(F.rating_min # None /\ chunk.rating_avg # None
            /\ Val(chunk.rating_avg) < Val(F.rating_min))

_passes_filters(chunk, F) ==
    /\ ~(TruthySet(F.allowed_sources) /\ NotIn(chunk.source, Val(F.allowed_sources)))
    /\ ~(TruthySet(F.allowed_categories)
            /\ NotIn(chunk.category, Val(F.allowed_categories)))
    /\ ~(TruthyStr(F.category_contains)
            /\ LET cc == LowerChars(Chars(IF TruthyStr(chunk.category)
                                          THEN Val(chunk.category) ELSE ""))
               IN  ~IsSubstring(LowerChars(Chars(Val(F.category_contains))), cc))
    /\ ~(F.price_min # None /\ chunk.price_value # None
            /\ Val(chunk.price_value) < Val(F.price_min))
    /\ ~(F.price_max # None /\ chunk.price_value # None
            /\ Val(chunk.price_value) > Val(F.price_max))
    /\ ~(F.rating_min # None /\ chunk.rating_avg # None
            /\ Val(chunk.rating_avg) < Val(F.rating_min))

NoFilters ==
    [allowed_sources |-> None, allowed_categories |-> None,
     category_contains |-> None, price_min |-> None, price_max |-> None,
     rating_min |-> None]

-----------------------------------------------------------------------------
(* BM25 scores *)

\* The values bm25.get_scores may give a chunk, in units of 1/20 (a term common
\* to most chunks of a small corpus has a negative idf)
ScoreLevels == {-20, 0, 20}

\* BM25Okapi.get_scores sums one term per query token, and the term of a token
\* the chunk does not contain is 0: a chunk sharing no token with the query
\* scores 0; any other chunk gets whatever the corpus statistics give it.
GetScores(chs, q_tokens) ==
    LET q_words == Range(q_tokens)
        shares == [i \in 1..Len(chs) |->
                      q_words \cap Range(_tokenize(chs[i].text)) # {}]
    IN  { sc \in [1..Len(chs) -> ScoreLevels] :
            \A i \in 1..Len(chs) : ~shares[i] => sc[i] = 0 }

-----------------------------------------------------------------------------
(* bm25_search *)

\* _boost with `boost = ..` for `boost += ..`: the later bonus replaces the
\* earlier one
_boost_Replacing(c, s, q_words) ==
    IF q_words \cap Range(_tokenize(IF c.source = None THEN <<>>
                                    ELSE <<W(Val(c.source))>>)) # {}
    THEN s + s \div 20
    ELSE IF q_words \cap Range(_tokenize(c.title)) # {} THEN s + s \div 10
    ELSE s

\* 0.10 * s and 0.05 * s for the title and the source label
_boost(c, s, q_words) ==
    s + (IF q_words \cap Range(_tokenize(c.title)) # {} THEN s \div 10 ELSE 0)
      + (IF q_words \cap Range(_tokenize(IF c.source = None THEN <<>>
                                         ELSE <<W(Val(c.source))>>)) # {}
         THEN s \div 20 ELSE 0)

\* pairs: the filter-passing (i, boosted score), in corpus order
RECURSIVE FilterBoost(_, _, _, _, _)
FilterBoost(chs, sc, F, q_words, i) ==
    IF i > Len(chs) THEN <<>>
    ELSE (IF _passes_filters(chs[i], F)
          THEN <<[i |-> i, s |-> _boost(chs[i], sc[i], q_words)]>> ELSE <<>>)
         \o FilterBoost(chs, sc, F, q_words, i + 1)

\* An insertion that puts a pair before the pairs of equal score
RECURSIVE InsertDesc_BeforeEqual(_, _)
InsertDesc_BeforeEqual(sorted, p) ==
    IF sorted = <<>> THEN <<p>>
    ELSE IF Head(sorted).s > p.s
         THEN <<Head(sorted)>> \o InsertDesc_BeforeEqual(Tail(sorted), p)
    ELSE <<p>> \o sorted

\* list.sort(key=score, reverse=True): stable, equal scores keep their order
RECURSIVE InsertDesc(_, _)
InsertDesc(sorted, p) ==
    IF sorted = <<>> THEN <<p>>
    ELSE IF Head(sorted).s >= p.s THEN <<Head(sorted)>> \o InsertDesc(Tail(sorted), p)
    ELSE <<p>> \o sorted

\* pairs left as appended, in corpus order
SortDesc_Unsorted(ps) == ps

RECURSIVE SortDesc(_)
SortDesc(ps) ==
    IF ps = <<>> THEN <<>>
    ELSE InsertDesc(SortDesc(SubSeq(ps, 1, Len(ps) - 1)), ps[Len(ps)])

\* pairs[:top_k] for top_k >= 0
Take(ps, k) == SubSeq(ps, 1, Min2(k, Len(ps)))

\* The loop without the `doc_id in seen_docs: continue` test
RECURSIVE FirstPass_NoSeenTest(_, _, _, _, _, _)
FirstPass_NoSeenTest(chs, ps, i, seen, acc, top_k) ==
    IF i > Len(ps) THEN [acc |-> acc, seen |-> seen, returned |-> FALSE]
    ELSE LET acc2 == Append(acc, ps[i])
             seen2 == seen \cup {chs[ps[i].i].doc_id}
         IN  IF Len(acc2) >= top_k
             THEN [acc |-> acc2, seen |-> seen2, returned |-> TRUE]
             ELSE FirstPass_NoSeenTest(chs, ps, i + 1, seen2, acc2, top_k)

\* The loop with a seen_docs that is kept from one call to the next
RECURSIVE FirstPass_StaleSeen(_, _, _, _, _, _)
FirstPass_StaleSeen(chs, ps, i, seen, acc, top_k) ==
    IF i > Len(ps) THEN [acc |-> acc, seen |-> seen, returned |-> FALSE]
    ELSE IF chs[ps[i].i].doc_id \in seen \cup seen_docs
         THEN FirstPass_StaleSeen(chs, ps, i + 1, seen, acc, top_k)
    ELSE LET acc2 == Append(acc, ps[i])
             seen2 == seen \cup {chs[ps[i].i].doc_id}
         IN  IF Len(acc2) >= top_k
             THEN [acc |-> acc2, seen |-> seen2, returned |-> TRUE]
             ELSE FirstPass_StaleSeen(chs, ps, i + 1, seen2, acc2, top_k)

\* The one-per-doc loop from position i on: stops (returned) as soon as an
\* append brings the list to top_k entries
RECURSIVE FirstPass(_, _, _, _, _, _)
FirstPass(chs, ps, i, seen, acc, top_k) ==
    IF i > Len(ps) THEN [acc |-> acc, seen |-> seen, returned |-> FALSE]
    ELSE IF chs[ps[i].i].doc_id \in seen
         THEN FirstPass(chs, ps, i + 1, seen, acc, top_k)
    ELSE LET acc2 == Append(acc, ps[i])
             seen2 == seen \cup {chs[ps[i].i].doc_id}
         IN  IF Len(acc2) >= top_k
             THEN [acc |-> acc2, seen |-> seen2, returned |-> TRUE]
             ELSE FirstPass(chs, ps, i + 1, seen2, acc2, top_k)

\* The "allow repeats" loop: appends pairs from the top of the sorted list
RECURSIVE SecondPass(_, _, _, _)
SecondPass(ps, i, acc, top_k) ==
    IF i > Len(ps) THEN acc
    ELSE LET acc2 == Append(acc, ps[i])
         IN  IF Len(acc2) >= top_k THEN acc2
             ELSE SecondPass(ps, i + 1, acc2, top_k)


\* bm25_search as a function of its arguments and of the scores the index gives
bm25_search(chs, sc, query, top_k, F, diversify) ==
    LET ps == SortDesc(FilterBoost(chs, sc, F, Range(_tokenize(query)), 1))
        r == FirstPass(chs, ps, 1, {}, <<>>, top_k)
    IN  IF ~diversify THEN Take(ps, top_k)
        ELSE IF r.returned THEN r.acc
        ELSE IF Len(r.acc) < top_k THEN SecondPass(ps, 1, r.acc, top_k)
        ELSE r.acc

-----------------------------------------------------------------------------
(* _parse_query_constraints, on the items of the query *)

EOQ == [k |-> "eof", w |-> "", n |-> 0]
At(q, i) == IF i \in 1..Len(q) THEN Lower(q[i]) ELSE EOQ
IsW(q, i, s) == At(q, i).k \in {"w", "s"} /\ At(q, i).w = s
IsNum(q, i) == At(q, i).k \in {"n", "d"}
Least(I) == CHOOSE i \in I : \A j \in I : i <= j

RECURSIVE FirstDigit(_)
FirstDigit(n) == IF n < 10 THEN n ELSE FirstDigit(n \div 10)

\* float() of a numeral a price pattern captured, (\d+(?:\.\d+)?).  The
\* prices of the model are whole BDT: a bound i.f is kept as the whole bound
\* that admits the same whole prices, rounded up for a floor and down for a
\* ceiling
AsFloor(t) == IF t.k = "d" THEN (t.n + 9) \div 10 ELSE t.n
AsCeiling(t) == IF t.k = "d" THEN t.n \div 10 ELSE t.n

\* between\s+X\s+(?:and|to)\s+Y
BetweenAt(q) ==
    {i \in 1..Len(q) : /\ IsW(q, i, "between") /\ IsNum(q, i + 1)
                       /\ (IsW(q, i + 2, "and") \/ IsW(q, i + 2, "to"))
                       /\ IsNum(q, i + 3)}

\* (?:under|below|<=|less than)\s*X : the positions of X
UnderNum(q) ==
    {i \in 1..Len(q) :
        /\ IsNum(q, i)
        /\ \/ IsW(q, i - 1, "under") \/ IsW(q, i - 1, "below") \/ IsW(q, i - 1, "<=")
           \/ (IsW(q, i - 2, "less") /\ IsW(q, i - 1, "than"))}

\* (?:>=|at least)\s*X : the positions of X
AtLeastNum(q) ==
    {i \in 1..Len(q) :
        /\ IsNum(q, i)
        /\ \/ IsW(q, i - 1, ">=")
           \/ (IsW(q, i - 2, "at") /\ IsW(q, i - 1, "least"))}

\* The whole part of a numeral
Whole(t) == IF t.k = "d" THEN t.n \div 10 ELSE t.n

\* [0-5](?:\.\d+)? at the start of a numeral, in tenths: of a digit run of
\* several digits the first digit alone
RatingDigit(q, i) == IsNum(q, i) /\ FirstDigit(Whole(At(q, i))) <= 5
RatingAtStart(t) ==
    IF t.k = "d" /\ Whole(t) < 10 THEN t.n ELSE 10 * FirstDigit(Whole(t))

\* rating\s*(?:>=|at least|of at least)?\s*([0-5]..) : the positions of the number
RatingNum1(q) ==
    {i \in 1..Len(q) :
        /\ RatingDigit(q, i)
        /\ \/ IsW(q, i - 1, "rating")
           \/ (IsW(q, i - 2, "rating") /\ IsW(q, i - 1, ">="))
           \/ (IsW(q, i - 3, "rating") /\ IsW(q, i - 2, "at") /\ IsW(q, i - 1, "least"))
           \/ (IsW(q, i - 4, "rating") /\ IsW(q, i - 3, "of")
                 /\ IsW(q, i - 2, "at") /\ IsW(q, i - 1, "least"))}

\* ([0-5]..)\s*\+\s*rating : the numeral before the "+"; the match starts at
\* the last digit before the point, or else at the last digit
RatingBeforePlus(t) ==
    IF t.k = "d"
    THEN IF Whole(t) % 10 <= 5 THEN 10 * (Whole(t) % 10) + (t.n % 10)
         ELSE 10 * (t.n % 10)
    ELSE 10 * (t.n % 10)
RatingNum2(q) ==
    {i \in 1..Len(q) :
        /\ IsNum(q, i) /\ IsW(q, i + 1, "+") /\ IsW(q, i + 2, "rating")
        /\ \/ At(q, i).n % 10 <= 5
           \/ (At(q, i).k = "d" /\ Whole(At(q, i)) % 10 <= 5)}

\* (?:at least|minimum|min)\s*([0-5]..)\s*(?:stars|rating)
RatingNum3(q) ==
    {i \in 1..Len(q) :
        /\ IsNum(q, i) /\ Whole(At(q, i)) <= 5
        /\ \/ (IsW(q, i - 2, "at") /\ IsW(q, i - 1, "least"))
           \/ IsW(q, i - 1, "minimum") \/ IsW(q, i - 1, "min")
        /\ (IsW(q, i + 1, "stars") \/ IsW(q, i + 1, "rating"))}

Adjacent(q, a, b) == \E i \in 1..Len(q) : IsW(q, i, a) /\ IsW(q, i + 1, b)

\* _parse_query_constraints with the two numbers of "between" taken in the
\* order they are written
_parse_query_constraints_AsWritten(q) ==
    LET b == BetweenAt(q)
        X == At(q, Least(b) + 1)
        Y == At(q, Least(b) + 3)
        bmin == IF b = {} THEN None ELSE Some(AsFloor(X))
        bmax == IF b = {} THEN None ELSE Some(AsCeiling(Y))
        u == UnderNum(q)
        a == AtLeastNum(q)
        r1 == RatingNum1(q)
        r2 == RatingNum2(q)
        r3 == RatingNum3(q)
    IN  [price_min |->
            IF a = {} THEN bmin
            ELSE Some(Max2(IF bmin = None THEN 0 ELSE Val(bmin),
                           AsFloor(At(q, Least(a))))),
         price_max |-> IF u = {} THEN bmax ELSE Some(AsCeiling(At(q, Least(u)))),
         rating_min |->
            IF r1 # {} THEN Some(RatingAtStart(At(q, Least(r1))))
            ELSE IF r2 # {} THEN Some(RatingBeforePlus(At(q, Least(r2))))
            ELSE IF r3 # {} THEN Some(At(q, Least(r3)).n
                                        * (IF At(q, Least(r3)).k = "d" THEN 1 ELSE 10))
            ELSE None,
         source_hint |->
            IF Adjacent(q, "daraz", "only") \/ Adjacent(q, "only", "daraz")
            THEN Some("Daraz")
            ELSE IF Adjacent(q, "startech", "only") \/ Adjacent(q, "only", "startech")
                    \/ Adjacent(q, "star", "tech")
            THEN Some("StarTech")
            ELSE None]

\* _parse_query_constraints with `price_min or 0.0` taken also when no
\* "at least" phrase matched
_parse_query_constraints_ZeroMin(q) ==
    LET b == BetweenAt(q)
        X == At(q, Least(b) + 1)
        Y == At(q, Least(b) + 3)
        bmin == IF b = {} THEN None ELSE Some(Min2(AsFloor(X), AsFloor(Y)))
        bmax == IF b = {} THEN None ELSE Some(Max2(AsCeiling(X), AsCeiling(Y)))
        u == UnderNum(q)
        a == AtLeastNum(q)
        r1 == RatingNum1(q)
        r2 == RatingNum2(q)
        r3 == RatingNum3(q)
    IN  [price_min |->
            IF a = {} THEN Some(IF bmin = None THEN 0 ELSE Val(bmin))
            ELSE Some(Max2(IF bmin = None THEN 0 ELSE Val(bmin),
                           AsFloor(At(q, Least(a))))),
         price_max |-> IF u = {} THEN bmax ELSE Some(AsCeiling(At(q, Least(u)))),
         rating_min |->
            IF r1 # {} THEN Some(RatingAtStart(At(q, Least(r1))))
            ELSE IF r2 # {} THEN Some(RatingBeforePlus(At(q, Least(r2))))
            ELSE IF r3 # {} THEN Some(At(q, Least(r3)).n
                                        * (IF At(q, Least(r3)).k = "d" THEN 1 ELSE 10))
            ELSE None,
         source_hint |->
            IF Adjacent(q, "daraz", "only") \/ Adjacent(q, "only", "daraz")
            THEN Some("Daraz")
            ELSE IF Adjacent(q, "startech", "only") \/ Adjacent(q, "only", "startech")
                    \/ Adjacent(q, "star", "tech")
            THEN Some("StarTech")
            ELSE None]

_parse_query_constraints(q) ==
    LET b == BetweenAt(q)
        X == At(q, Least(b) + 1)
        Y == At(q, Least(b) + 3)
        bmin == IF b = {} THEN None ELSE Some(Min2(AsFloor(X), AsFloor(Y)))
        bmax == IF b = {} THEN None ELSE Some(Max2(AsCeiling(X), AsCeiling(Y)))
        u == UnderNum(q)
        a == AtLeastNum(q)
        r1 == RatingNum1(q)
        r2 == RatingNum2(q)
        r3 == RatingNum3(q)
    IN  [price_min |->
            IF a = {} THEN bmin
            ELSE Some(Max2(IF bmin = None THEN 0 ELSE Val(bmin),
                           AsFloor(At(q, Least(a))))),
         price_max |-> IF u = {} THEN bmax ELSE Some(AsCeiling(At(q, Least(u)))),
         rating_min |->
            IF r1 # {} THEN Some(RatingAtStart(At(q, Least(r1))))
            ELSE IF r2 # {} THEN Some(RatingBeforePlus(At(q, Least(r2))))
            ELSE IF r3 # {} THEN Some(At(q, Least(r3)).n
                                        * (IF At(q, Least(r3)).k = "d" THEN 1 ELSE 10))
            ELSE None,
         source_hint |->
            IF Adjacent(q, "daraz", "only") \/ Adjacent(q, "only", "daraz")
            THEN Some("Daraz")
            ELSE IF Adjacent(q, "startech", "only") \/ Adjacent(q, "only", "startech")
                    \/ Adjacent(q, "star", "tech")
            THEN Some("StarTech")
            ELSE None]


-----------------------------------------------------------------------------
(* The search: direct calls of bm25_search and the Search button's handler *)

DEFAULT_TOPK == 10

Queries ==
    { <<W("laptop"), W("under"), N(100000)>>,
      <<W("The"), W("Daraz"), W("laptop"), W("mouse"), W("under"), N(3000)>> }

FilterChoices ==
    { NoFilters,
      [NoFilters EXCEPT !.allowed_sources = Some({"Daraz"})],
      [NoFilters EXCEPT !.price_max = Some(3000)] }

\* The calls of the filter study: one query, each filter alone and some together
FilterQueries == { <<W("laptop"), W("under"), N(100000)>> }

WideFilters ==
    { NoFilters,
      [NoFilters EXCEPT !.allowed_sources = Some({})],
      [NoFilters EXCEPT !.allowed_sources = Some({"Daraz"})],
      [NoFilters EXCEPT !.allowed_categories = Some({"Laptop"})],
      [NoFilters EXCEPT !.allowed_categories = Some({"Laptop", "Chair"})],
      [NoFilters EXCEPT !.category_contains = Some("LAP")],
      [NoFilters EXCEPT !.price_min = Some(2000)],
      [NoFilters EXCEPT !.price_max = Some(3000)],
      [NoFilters EXCEPT !.rating_min = Some(40)],
      [NoFilters EXCEPT !.price_max = Some(3000), !.rating_min = Some(40)],
      [NoFilters EXCEPT !.allowed_categories = Some({"Laptop", "Chair"}),
                        !.price_max = Some(3000)],
      [NoFilters EXCEPT !.price_min = Some(2000), !.price_max = Some(100000),
                        !.rating_min = Some(45)] }

NoArgs == [query |-> <<>>, top_k |-> 0, F |-> NoFilters, diversify |-> FALSE]
NoUi == [used |-> FALSE, query |-> <<>>, sel_sources |-> {}, sel_categories |-> {},
         cat_contains |-> "", price_max_ui |-> <<>>, rating_min_ui |-> <<>>]

\* What the user may have typed and selected when pressing Search
UiChoices ==
    [used : {TRUE},
     query : Queries,
     sel_sources : {{}, {"Daraz"}},
     sel_categories : {{}},
     cat_contains : {""},
     price_max_ui : {<<>>, <<N(3000)>>, <<W("abc")>>},
     rating_min_ui : {<<>>, <<N(4)>>}]

\* _to_float: the text of a number field; a rating is kept in tenths
_to_float(x, unit) ==
    IF Len(x) = 1 /\ x[1].k = "n" THEN Some(unit * x[1].n) ELSE None

\* No search made
SearchUnused ==
    /\ chunks = <<>> /\ ui = NoUi /\ args = NoArgs /\ pc = "idle"
    /\ scores = <<>> /\ pairs = <<>> /\ diversified = <<>>
    /\ seen_docs = {} /\ result = <<>>

InitSearch ==
    /\ chunks \in {all_chunks(ps) : ps \in ProductLists}
    /\ ui = NoUi
    /\ args = NoArgs
    /\ pc = "idle"
    /\ scores = <<>>
    /\ pairs = <<>>
    /\ diversified = <<>>
    /\ seen_docs = {}
    /\ result = <<>>
    /\ IndexUnused
    /\ CorpusUnused /\ ChunkUnused /\ UtilUnused

\* A caller invokes bm25_search(bm25, chunks, tokenized_corpus, query, top_k, ...)
CallWith(Qs, Fs) ==
    /\ pc = "idle"
    /\ \E q \in Qs, k \in 0..MaxTopK, F \in Fs, d \in BOOLEAN :
          args' = [query |-> q, top_k |-> k, F |-> F, diversify |-> d]
    /\ pc' = "called"
    /\ UNCHANGED <<chunks, ui, scores, pairs, diversified, seen_docs, result>>
    /\ UNCHANGED <<indexVars, corpusVars, chunkVars, utilVars>>

Call == CallWith(Queries, FilterChoices)

CallFiltered == CallWith(FilterQueries, WideFilters)

\* The handler's merge with the source hint left out
MergeFilters_NoHint(u) ==
    LET constraints == _parse_query_constraints(u.query)
        price_max_filter == _to_float(u.price_max_ui, 1)
        rating_min_filter == _to_float(u.rating_min_ui, 10)
    IN  [allowed_sources |->
            IF u.sel_sources # {} THEN Some(u.sel_sources) ELSE None,
         allowed_categories |->
            IF u.sel_categories # {} THEN Some(u.sel_categories) ELSE None,
         category_contains |->
            IF u.cat_contains # "" THEN Some(u.cat_contains) ELSE None,
         price_min |-> constraints.price_min,
         price_max |->
            IF price_max_filter # None THEN price_max_filter
            ELSE constraints.price_max,
         rating_min |->
            IF rating_min_filter # None THEN rating_min_filter
            ELSE constraints.rating_min]

\* The handler's merge with the query's bounds put before the widgets'
MergeFilters_QueryFirst(u) ==
    LET constraints == _parse_query_constraints(u.query)
        price_max_filter == _to_float(u.price_max_ui, 1)
        rating_min_filter == _to_float(u.rating_min_ui, 10)
    IN  [allowed_sources |->
            IF u.sel_sources # {} THEN Some(u.sel_sources)
            ELSE IF constraints.source_hint # None
                 THEN Some({Val(constraints.source_hint)})
                 ELSE None,
         allowed_categories |->
            IF u.sel_categories # {} THEN Some(u.sel_categories) ELSE None,
         category_contains |->
            IF u.cat_contains # "" THEN Some(u.cat_contains) ELSE None,
         price_min |-> constraints.price_min,
         price_max |->
            IF constraints.price_max # None THEN constraints.price_max
            ELSE price_max_filter,
         rating_min |->
            IF constraints.rating_min # None THEN constraints.rating_min
            ELSE rating_min_filter]

\* The filters the handler passes: the widgets' values merged with the
\* constraints of the query
MergeFilters(u) ==
    LET constraints == _parse_query_constraints(u.query)
        price_max_filter == _to_float(u.price_max_ui, 1)
        rating_min_filter == _to_float(u.rating_min_ui, 10)
    IN  [allowed_sources |->
            IF u.sel_sources # {} THEN Some(u.sel_sources)
            ELSE IF constraints.source_hint # None
                 THEN Some({Val(constraints.source_hint)})
                 ELSE None,
         allowed_categories |->
            IF u.sel_categories # {} THEN Some(u.sel_categories) ELSE None,
         category_contains |->
            IF u.cat_contains # "" THEN Some(u.cat_contains) ELSE None,
         price_min |-> constraints.price_min,
         price_max |->
            IF price_max_filter # None THEN price_max_filter
            ELSE constraints.price_max,
         rating_min |->
            IF rating_min_filter # None THEN rating_min_filter
            ELSE constraints.rating_min]

\* if go and query.strip(): merge the query's constraints with the widgets and
\* call bm25_search with the slider's top_k (left at its default)
SearchHandlerWith(Us) ==
    /\ pc = "idle"
    /\ \E u \in Us, d \in BOOLEAN :
          /\ u.query # <<>>
          /\ ui' = u
          /\ args' = [query |-> u.query, top_k |-> DEFAULT_TOPK,
                      F |-> MergeFilters(u), diversify |-> d]
    /\ pc' = "called"
    /\ UNCHANGED <<chunks, scores, pairs, diversified, seen_docs, result>>
    /\ UNCHANGED <<indexVars, corpusVars, chunkVars, utilVars>>

SearchHandler == SearchHandlerWith(UiChoices)

\* What is typed and selected in the study of the merge
MergeQueries ==
    { <<W("mouse"), W("startech"), W("only"), W("under"), N(3000)>>,
      <<W("laptop"), W("between"), N(100000), W("and"), N(2000), W("rating"), N(4)>>,
      <<W("only"), W("daraz"), W("laptop"), W("at"), W("least"), N(2000)>> }

MergeUi ==
    [used : {TRUE},
     query : MergeQueries,
     sel_sources : {{}, {"Daraz"}, {"StarTech"}},
     sel_categories : {{}},
     cat_contains : {""},
     price_max_ui : {<<>>, <<N(1000)>>, <<W("abc")>>, <<Sym("-"), N(5)>>},
     rating_min_ui : {<<>>, <<N(3)>>}]

SearchMerged == SearchHandlerWith(MergeUi)

\* Queries with a price range, in both orders, alone and next to an "under"
\* or an "at least" phrase; the widgets are left empty
BetweenQueries ==
    { <<W("laptop"), W("between"), N(2000), W("and"), N(100000)>>,
      <<W("laptop"), W("between"), N(100000), W("and"), N(2000)>>,
      <<W("mouse"), W("Between"), N(1000), W("to"), N(3000)>>,
      <<W("mouse"), W("between"), N(3000), W("and"), N(3000)>>,
      <<W("laptop"), W("between"), N(2000), W("and"), N(100000), W("under"), N(500)>>,
      <<W("laptop"), W("between"), N(100000), W("and"), N(2000), W("under"), N(50000)>>,
      <<W("laptop"), W("between"), N(2000), W("and"), N(100000),
        W("at"), W("least"), N(150000)>>,
      <<W("laptop"), W("under"), N(3000), W("at"), W("least"), N(5000)>>,
      <<W("laptop"), W("between"), W("shops")>> }

BetweenUi ==
    [used : {TRUE},
     query : BetweenQueries,
     sel_sources : {{}},
     sel_categories : {{}},
     cat_contains : {""},
     price_max_ui : {<<>>},
     rating_min_ui : {<<>>}]

SearchBetween == SearchHandlerWith(BetweenUi)

\* Tokenize the query, score, filter, boost and sort
Retrieve ==
    /\ pc = "called"
    /\ LET q_tokens == _tokenize(args.query)
       IN  \E sc \in GetScores(chunks, q_tokens) :
              /\ scores' = sc
              /\ pairs' = SortDesc(FilterBoost(chunks, sc, args.F, Range(q_tokens), 1))
    /\ pc' = "sorted"
    /\ UNCHANGED <<chunks, ui, args, diversified, seen_docs, result>>
    /\ UNCHANGED <<indexVars, corpusVars, chunkVars, utilVars>>

\* if not diversify: return pairs[:top_k]
ReturnTopK ==
    /\ pc = "sorted"
    /\ ~args.diversify
    /\ result' = Take(pairs, args.top_k)
    /\ pc' = "done"
    /\ UNCHANGED <<chunks, ui, args, scores, pairs, diversified, seen_docs>>
    /\ UNCHANGED <<indexVars, corpusVars, chunkVars, utilVars>>

\* Diversify: one per doc first; returns from inside the loop at top_k entries
DiversifyPass ==
    /\ pc = "sorted"
    /\ args.diversify
    /\ LET r == FirstPass(chunks, pairs, 1, {}, <<>>, args.top_k)
       IN  /\ diversified' = r.acc
           /\ seen_docs' = r.seen
           /\ IF r.returned
              THEN pc' = "done" /\ result' = r.acc
              ELSE pc' = "backfill" /\ result' = result
    /\ UNCHANGED <<chunks, ui, args, scores, pairs>>
    /\ UNCHANGED <<indexVars, corpusVars, chunkVars, utilVars>>

\* If more needed, allow repeats; return diversified
Backfill ==
    /\ pc = "backfill"
    /\ LET out == IF Len(diversified) < args.top_k
                  THEN SecondPass(pairs, 1, diversified, args.top_k)
                  ELSE diversified
       IN  diversified' = out /\ result' = out
    /\ pc' = "done"
    /\ UNCHANGED <<chunks, ui, args, scores, pairs, seen_docs>>
    /\ UNCHANGED <<indexVars, corpusVars, chunkVars, utilVars>>

NextSearch ==
    Call \/ SearchHandler \/ Retrieve \/ ReturnTopK \/ DiversifyPass \/ Backfill

SpecSearch == InitSearch /\ [][NextSearch]_vars

\* The first of two calls: the index gives the scores of the query
RetrieveFirst == first_call = None /\ Retrieve

\* bm25_search is called once more on the same chunk table and index, with the
\* same query, filters, top_k and diversify
CallAgain ==
    /\ pc = "done" /\ first_call = None
    /\ first_call' = Some([chunks |-> chunks, args |-> args, scores |-> scores,
                           result |-> result])
    /\ pc' = "called"
    /\ UNCHANGED <<tokVars, priceVars, scrapeVars, chunks, ui, args, scores, pairs, diversified, seen_docs, result>>
    /\ UNCHANGED <<indexVars, corpusVars, chunkVars>>

\* The second call: bm25.get_scores, a function of the index and the query
\* tokens that changes neither, gives the scores it gave before; filter, boost
\* and sort as before
RetrieveAgain ==
    /\ pc = "called" /\ first_call # None
    /\ scores' = Val(first_call).scores
    /\ pairs' = SortDesc(FilterBoost(chunks, Val(first_call).scores, args.F,
                                     Range(_tokenize(args.query)), 1))
    /\ pc' = "sorted"
    /\ UNCHANGED <<chunks, ui, args, diversified, seen_docs, result>>
    /\ UNCHANGED <<indexVars, corpusVars, chunkVars, utilVars>>

NextRepeat ==
    Call \/ RetrieveFirst \/ CallAgain \/ RetrieveAgain \/ ReturnTopK \/ DiversifyPass
        \/ Backfill

SpecRepeat == InitSearch /\ [][NextRepeat]_vars

NextHandler == SearchMerged \/ Retrieve \/ ReturnTopK \/ DiversifyPass \/ Backfill

SpecHandler == InitSearch /\ [][NextHandler]_vars

\* Queries with one constraint phrase each, or none; the widgets are left empty
PhraseQueries ==
    { <<W("under"), N(2000)>>,
      <<W("between"), N(1500), W("and"), N(3000)>>,
      <<Dec(4, 5), Sym("+"), W("rating")>>,
      <<W("startech"), W("only")>>,
      <<W("Gaming"), W("laptop")>>,
      <<W("laptop"), W("Rating"), N(4)>>,
      <<W("rating"), W("at"), W("least"), N(4)>>,
      <<W("rating"), W("at"), W("least"), Dec(4, 5)>>,
      <<W("at"), W("least"), N(4), W("stars")>>,
      <<W("at"), W("least"), N(0), W("stars")>>,
      <<W("minimum"), N(3), W("stars")>>,
      <<W("only"), W("daraz"), W("mouse")>> }

PhraseUi ==
    [used : {TRUE},
     query : PhraseQueries,
     sel_sources : {{}},
     sel_categories : {{}},
     cat_contains : {""},
     price_max_ui : {<<>>},
     rating_min_ui : {<<>>}]

SearchPhrases == SearchHandlerWith(PhraseUi)

NextPhrases == SearchPhrases \/ Retrieve \/ ReturnTopK \/ DiversifyPass \/ Backfill

SpecPhrases == InitSearch /\ [][NextPhrases]_vars

NextBetween == SearchBetween \/ Retrieve \/ ReturnTopK \/ DiversifyPass \/ Backfill

SpecBetween == InitSearch /\ [][NextBetween]_vars

NextFilter == CallFiltered \/ Retrieve \/ ReturnTopK \/ DiversifyPass \/ Backfill

SpecFilter == InitSearch /\ [][NextFilter]_vars

-----------------------------------------------------------------------------
(* build_or_load_bm25 and the index directory *)

\* The laptop record after its rating changed, the chair record after its
\* page moved
LaptopRerated == [LaptopDoc EXCEPT !.rating_avg = Some(30)]
ChairMoved == [ChairDoc EXCEPT !.url = Some("u9")]

IndexPool == {LaptopDoc, LaptopRerated, ChairDoc, ChairMoved}

\* The record sets the app is started with: one record, or two of different
\* doc_id
IndexLists ==
    {<<p>> : p \in IndexPool}
        \cup {<<x[1], x[2]>> :
                 x \in {y \in IndexPool \X IndexPool : y[1].doc_id # y[2].doc_id}}

\* content_sig = _sha1 of the lines doc_id + "\t" + text of the chunks: the
\* digest is written as the lines it was taken of (no two inputs collide)
content_sig(chs) == [i \in 1..Len(chs) |-> <<chs[i].doc_id, chs[i].text>>]

\* sig = _sha1(f"v2combined|lang={lang}|{content_sig}"), lang being fixed
IndexSig(chs) == <<"v2combined", content_sig(chs)>>

\* The meta file _index_paths(sig) names, if it exists
Cached(sig) == {f \in index_dir : f.sig = sig}

InitIndex == SearchUnused /\ IndexUnused /\ CorpusUnused /\ ChunkUnused /\ UtilUnused

\* build_or_load_bm25 when no file of the signature exists: builds, pickles
\* the chunks under the signature and returns them
BuildAndSave ==
    /\ \E ps \in IndexLists :
          LET chs == all_chunks(ps)
              sig == IndexSig(chs)
          IN  /\ Cached(sig) = {}
              /\ index_dir' = index_dir \cup {[sig |-> sig, chunks |-> chs]}
              /\ products' = ps
              /\ chunk_table' = chs
    /\ UNCHANGED <<sessionVars, searchVars, corpusVars, chunkVars, utilVars>>

\* build_or_load_bm25 when the files of the signature exist: returns
\* meta["chunks"] as pickled
LoadCached ==
    /\ \E ps \in IndexLists :
          LET sig == IndexSig(all_chunks(ps))
          IN  /\ Cached(sig) # {}
              /\ chunk_table' = (CHOOSE f \in Cached(sig) : TRUE).chunks
              /\ products' = ps
    /\ UNCHANGED <<index_dir, sessionVars>>
    /\ UNCHANGED <<searchVars, corpusVars, chunkVars, utilVars>>

NextIndex == BuildAndSave \/ LoadCached

SpecIndex == InitIndex /\ [][NextIndex]_vars

-----------------------------------------------------------------------------
(* build_or_load_bm25 run by several sessions on one index directory *)

\* What a session passes: no product, the laptop record, the laptop record
\* after its rating changed
SessionLists == {<<>>, <<LaptopDoc>>, <<LaptopRerated>>}

Sessions == 1..MaxSessions

SigOf(t) == IndexSig(session[t].all_chunks)

\* os.path.exists(bm25_pkl) and os.path.exists(meta_pkl)
BothExist(sig) == sig \in bm25_pkls /\ Cached(sig) # {}

\* A session chunks its products, finds both files of the signature and
\* returns what they hold
SessionLoad(t) ==
    /\ session[t].pc = "idle"
    /\ \E ps \in SessionLists :
          LET chs == all_chunks(ps)
              sig == IndexSig(chs)
          IN  /\ BothExist(sig)
              /\ session' = [session EXCEPT ![t] =
                    [pc |-> "returned", ps |-> ps, all_chunks |-> chs,
                     ret |-> (CHOOSE f \in Cached(sig) : TRUE).chunks]]
    /\ UNCHANGED <<bm25_pkls, open_pkls, index_dir, products, chunk_table>>
    /\ UNCHANGED <<searchVars, corpusVars, chunkVars, utilVars>>

\* A file of the signature that a session has open for writing: it exists,
\* and holds none or a part of its pickle until the writer is done
OpenFor(sig) == {o \in open_pkls : o.sig = sig}

\* A session chunks its products, finds both files of the signature, one of
\* them still being written, and reads it before the writer has flushed the
\* whole pickle: pickle.load raises EOFError or UnpicklingError.  (When the
\* writer has flushed everything already, the load goes as in SessionLoad.)
SessionLoadTorn(t) ==
    /\ session[t].pc = "idle"
    /\ \E ps \in SessionLists :
          LET chs == all_chunks(ps)
              sig == IndexSig(chs)
          IN  /\ BothExist(sig)
              /\ OpenFor(sig) # {}
              /\ session' = [session EXCEPT ![t] =
                    [pc |-> "unpickle_failed", ps |-> ps, all_chunks |-> chs,
                     ret |-> <<>>]]
    /\ UNCHANGED <<bm25_pkls, open_pkls, index_dir, products, chunk_table>>
    /\ UNCHANGED <<searchVars, corpusVars, chunkVars, utilVars>>

\* A session chunks its products and finds a file of the signature missing
SessionMiss(t) ==
    /\ session[t].pc = "idle"
    /\ \E ps \in SessionLists :
          LET chs == all_chunks(ps)
          IN  /\ ~BothExist(IndexSig(chs))
              /\ session' = [session EXCEPT ![t] =
                    [pc |-> "building", ps |-> ps, all_chunks |-> chs, ret |-> <<>>]]
    /\ UNCHANGED <<bm25_pkls, open_pkls, index_dir, products, chunk_table>>
    /\ UNCHANGED <<searchVars, corpusVars, chunkVars, utilVars>>

\* tokenized_corpus = [...]; bm25 = BM25Okapi(tokenized_corpus): the
\* constructor divides by the number of documents (avgdl = num_doc /
\* corpus_size) and raises ZeroDivisionError for none
SessionBuild(t) ==
    /\ session[t].pc = "building"
    /\ session' = [session EXCEPT ![t].pc =
          IF session[t].all_chunks = <<>> THEN "raised" ELSE "built"]
    /\ UNCHANGED <<bm25_pkls, open_pkls, index_dir, products, chunk_table>>
    /\ UNCHANGED <<searchVars, corpusVars, chunkVars, utilVars>>

\* with open(bm25_pkl, "wb") as f: the file exists from here on, empty
SessionOpenBm25(t) ==
    /\ session[t].pc = "built"
    /\ bm25_pkls' = bm25_pkls \cup {SigOf(t)}
    /\ open_pkls' = open_pkls \cup {[file |-> "bm25", sig |-> SigOf(t), by |-> t]}
    /\ session' = [session EXCEPT ![t].pc = "bm25_open"]
    /\ UNCHANGED <<index_dir, products, chunk_table>>
    /\ UNCHANGED <<searchVars, corpusVars, chunkVars, utilVars>>

\* pickle.dump(bm25, f) into bm25_<sig>.pkl, and the file is closed
SessionDumpBm25(t) ==
    /\ session[t].pc = "bm25_open"
    /\ bm25_pkls' = bm25_pkls \cup {SigOf(t)}
    /\ open_pkls' = open_pkls \ {[file |-> "bm25", sig |-> SigOf(t), by |-> t]}
    /\ session' = [session EXCEPT ![t].pc = "dumped"]
    /\ UNCHANGED <<index_dir, products, chunk_table>>
    /\ UNCHANGED <<searchVars, corpusVars, chunkVars, utilVars>>

\* with open(meta_pkl, "wb") as f: the file exists from here on; what was
\* in it is gone and what will be in it is not yet
SessionOpenMeta(t) ==
    /\ session[t].pc = "dumped"
    /\ index_dir' = (index_dir \ Cached(SigOf(t)))
                       \cup {[sig |-> SigOf(t), chunks |-> session[t].all_chunks]}
    /\ open_pkls' = open_pkls \cup {[file |-> "meta", sig |-> SigOf(t), by |-> t]}
    /\ session' = [session EXCEPT ![t].pc = "meta_open"]
    /\ UNCHANGED <<bm25_pkls, products, chunk_table>>
    /\ UNCHANGED <<searchVars, corpusVars, chunkVars, utilVars>>

\* pickle.dump({... "chunks": all_chunks}, f) into meta_<sig>.pkl, the file
\* is closed, and return
SessionDumpMeta(t) ==
    /\ session[t].pc = "meta_open"
    /\ index_dir' = (index_dir \ Cached(SigOf(t)))
                       \cup {[sig |-> SigOf(t), chunks |-> session[t].all_chunks]}
    /\ open_pkls' = open_pkls \ {[file |-> "meta", sig |-> SigOf(t), by |-> t]}
    /\ session' = [session EXCEPT ![t].pc = "returned",
                                  ![t].ret = session[t].all_chunks]
    /\ UNCHANGED <<bm25_pkls, products, chunk_table>>
    /\ UNCHANGED <<searchVars, corpusVars, chunkVars, utilVars>>

\* The script of a session runs again from the top
SessionRerun(t) ==
    /\ session[t].pc \in {"returned", "raised", "unpickle_failed"}
    /\ session' = [session EXCEPT ![t] = IdleSession]
    /\ UNCHANGED <<bm25_pkls, open_pkls, index_dir, products, chunk_table>>
    /\ UNCHANGED <<searchVars, corpusVars, chunkVars, utilVars>>

NextSessions ==
    \E t \in Sessions :
        \/ SessionLoad(t) \/ SessionLoadTorn(t) \/ SessionMiss(t) \/ SessionBuild(t)
        \/ SessionOpenBm25(t) \/ SessionDumpBm25(t)
        \/ SessionOpenMeta(t) \/ SessionDumpMeta(t) \/ SessionRerun(t)

SpecSessions == InitIndex /\ [][NextSessions]_vars

-----------------------------------------------------------------------------
(* build_combined_corpus.py, and the parser on the file it writes *)

MaxItems == 3

\* An id or a URL is the sequence of its pieces: runs of letters, digits, "_"
\* and "-", and the single characters between them
UrlA == <<"https", ":", "/", "/", "shop", ".", "bd", "/", "a">>
UrlB == <<"https", ":", "/", "/", "shop", ".", "bd", "/", "b">>

\* [A-Za-z0-9_\-]
IdChars(ch) == ch \notin {":", "/", ".", " "}

\* The scraped items: Daraz products.json entries and StarTech CSV rows
DarazItems ==
    { [source |-> "Daraz", data_item_id |-> Some(<<"101">>), url |-> None,
       title |-> "Mouse"],
      [source |-> "Daraz", data_item_id |-> None, url |-> Some(UrlA),
       title |-> "Desk"],
      [source |-> "Daraz", data_item_id |-> None, url |-> None,
       title |-> "Lamp"] }

StarTechRows ==
    { [source |-> "StarTech", data_item_id |-> None, url |-> Some(UrlA),
       title |-> "Desk"],
      [source |-> "StarTech", data_item_id |-> None, url |-> Some(UrlA),
       title |-> "Desk II"],
      [source |-> "StarTech", data_item_id |-> None, url |-> Some(UrlB),
       title |-> "Chair"],
      [source |-> "StarTech", data_item_id |-> None, url |-> None,
       title |-> ""] }

\* What is scraped: up to MaxItems items, the Daraz files read before the CSV
RawLists ==
    UNION { {r \in [1..n -> DarazItems \cup StarTechRows] :
                \A a, b \in 1..n :
                    (a < b /\ r[a].source = "StarTech") => r[b].source = "StarTech"}
            : n \in 1..MaxItems }

\* str(hash(key_part)): a run of digits, with "-" in front of a negative one;
\* different keys are given different digests
HashDigits(key) ==
    CASE key = "Mouse" -> "7731"
      [] key = "Desk" -> "-2904"
      [] key = "Lamp" -> "-518"
      [] key = "Chair" -> "66"
      [] OTHER -> "40213"

unique_stable_key(prod, source) ==
    IF source = "Daraz"
    THEN IF prod.data_item_id # None THEN <<"daraz_">> \o Val(prod.data_item_id)
         ELSE IF prod.url # None THEN <<"daraz_">> \o Val(prod.url)
         ELSE <<"daraz_", HashDigits(prod.title)>>
    ELSE IF source = "StarTech"
    THEN IF prod.url # None THEN <<"startech_">> \o Val(prod.url)
         ELSE <<"startech_", HashDigits(prod.title)>>
    ELSE <<"unknown_", HashDigits(prod.title)>>

unify_daraz_product(prod) ==
    [source |-> "Daraz", id |-> unique_stable_key(prod, "Daraz"),
     title |-> IF prod.title # "" THEN prod.title ELSE "Unknown Daraz Product",
     url |-> prod.url]

unify_startech_product(row) ==
    [source |-> "StarTech", id |-> unique_stable_key(row, "StarTech"),
     title |-> row.title, url |-> row.url]

\* The block "## title \n **DocID:** `id` \n **Source:** .. **URL:** .. ---":
\* its heading, its DocID label ("**DocID:**", starred, or "DocID:") with the
\* text behind it, and its Source, URL and Rating lines where it has them
product_to_markdown_block(p) ==
    [heading |-> Some(p.title), starred |-> TRUE, docid |-> Some(p.id),
     source |-> Some(p.source), url |-> p.url, rating |-> None]

\* ([A-Za-z0-9_\-]+) at the start of the text after "**DocID:** `"
RECURSIVE IdMatch(_)
IdMatch(pieces) ==
    IF pieces = <<>> \/ ~IdChars(Head(pieces)) THEN <<>>
    ELSE <<Head(pieces)>> \o IdMatch(Tail(pieces))

\* ##\s*(.+?)\s*(?=\*\*DocID:\*\*|...|DocID:), stripped: the heading; with
\* nothing between "##" and "**DocID:**" the lazy group takes the label's
\* two asterisks, the look-ahead being met by "DocID:"; "" is no match
TitleMatch(part) ==
    IF part.heading = None \/ part.docid = None THEN ""
    ELSE IF Val(part.heading) # "" THEN Val(part.heading)
    ELSE IF part.starred THEN "**" ELSE ""

\* \*\*Rating:\*\*\s*([0-5](?:\.\d+)?)\s*/\s*5 on "**Rating:** w.f/5" or
\* "**Rating:** w/5", and float() of the group, in tenths
RatingMatch(part) ==
    IF part.rating = None \/ Val(part.rating).whole \notin 0..5 THEN None
    ELSE Some(10 * Val(part.rating).whole
                + (IF Val(part.rating).frac = None THEN 0
                   ELSE Val(Val(part.rating).frac)))

\* parse_combined_products_from_md on the blocks from position i on: a block
\* without title match or without DocID match is skipped
RECURSIVE parse_combined_products_from_md(_, _)
parse_combined_products_from_md(blocks, i) ==
    IF i > Len(blocks) THEN <<>>
    ELSE LET part == blocks[i]
             title == TitleMatch(part)
             doc_id == IF part.docid = None THEN <<>> ELSE IdMatch(Val(part.docid))
         IN  (IF title = "" \/ doc_id = <<>> THEN <<>>
              ELSE <<[doc_id |-> doc_id, title |-> title,
                      source |-> part.source, url |-> part.url,
                      rating_avg |-> RatingMatch(part)]>>)
             \o parse_combined_products_from_md(blocks, i + 1)

InitCorpus ==
    /\ SearchUnused /\ IndexUnused /\ ChunkUnused /\ UtilUnused
    /\ raw_items \in RawLists
    /\ next_item = 1
    /\ seen_ids = {}
    /\ all_unified_products = <<>>
    /\ md_text = <<>>
    /\ parsed = <<>>
    /\ stage = "unify"

\* One round of a loop in which a later record takes the place of the
\* earlier one of the same id
KeepFirst_LastWins(unified) ==
    /\ IF unified.id \in seen_ids
       THEN /\ seen_ids' = seen_ids
            /\ all_unified_products' =
                  [j \in 1..Len(all_unified_products) |->
                      IF all_unified_products[j].id = unified.id THEN unified
                      ELSE all_unified_products[j]]
       ELSE /\ seen_ids' = seen_ids \cup {unified.id}
            /\ all_unified_products' = Append(all_unified_products, unified)
    /\ next_item' = next_item + 1
    /\ UNCHANGED <<raw_items, md_text, parsed, stage>>
    /\ UNCHANGED <<searchVars, indexVars, chunkVars, utilVars>>

\* main(): one round of a loop, over unified = unify(raw)
KeepFirst(unified) ==
    /\ IF unified.id \in seen_ids
       THEN UNCHANGED <<seen_ids, all_unified_products>>
       ELSE /\ seen_ids' = seen_ids \cup {unified.id}
            /\ all_unified_products' = Append(all_unified_products, unified)
    /\ next_item' = next_item + 1
    /\ UNCHANGED <<raw_items, md_text, parsed, stage>>
    /\ UNCHANGED <<searchVars, indexVars, chunkVars, utilVars>>

\* main(), 1. Process Daraz Data: one round of the loop
UnifyDaraz ==
    /\ stage = "unify" /\ next_item <= Len(raw_items)
    /\ raw_items[next_item].source = "Daraz"
    /\ KeepFirst(unify_daraz_product(raw_items[next_item]))

\* main(), 2. Process StarTech Data: one round of the loop
UnifyStarTech ==
    /\ stage = "unify" /\ next_item <= Len(raw_items)
    /\ raw_items[next_item].source = "StarTech"
    /\ KeepFirst(unify_startech_product(raw_items[next_item]))

\* main(), 3. Write Combined Output
WriteCorpus ==
    /\ stage = "unify" /\ next_item > Len(raw_items)
    /\ all_unified_products # <<>>
    /\ md_text' = [i \in 1..Len(all_unified_products) |->
                      product_to_markdown_block(all_unified_products[i])]
    /\ stage' = "written"
    /\ UNCHANGED <<raw_items, next_item, seen_ids, all_unified_products, parsed>>
    /\ UNCHANGED <<searchVars, indexVars, chunkVars, utilVars>>

\* The app reads the corpus file and parses it
ParseCorpus ==
    /\ stage = "written"
    /\ parsed' = parse_combined_products_from_md(md_text, 1)
    /\ stage' = "parsed"
    /\ UNCHANGED <<raw_items, next_item, seen_ids, all_unified_products, md_text>>
    /\ UNCHANGED <<searchVars, indexVars, chunkVars, utilVars>>

NextCorpus == UnifyDaraz \/ UnifyStarTech \/ WriteCorpus \/ ParseCorpus

SpecCorpus == InitCorpus /\ [][NextCorpus]_vars

-----------------------------------------------------------------------------
(* product_to_chunks on the pieces a chunker can return *)

\* The lines of a piece
MaxLines == 2

\* Lines of product text: plain words, a URL alone, a URL in front of words,
\* URLs behind words, a blank line, padded lines, an "**Images:**" line
LinePool ==
    { <<W("Mouse")>>,
      <<Url("a")>>,
      <<Url("a"), W("tail")>>,
      <<W("see"), Url("a"), W("now")>>,
      <<W("buy"), Url("x"), Url("y")>>,
      <<Sp>>,
      <<Sp, W("Pad"), Sp>>,
      <<Sp, Url("z"), Sp>>,
      <<Img, Url("a")>>,
      <<Img>> }

\* The pieces: up to MaxLines lines
PieceTexts == UNION { [1..n -> LinePool] : n \in 0..MaxLines }

InitClean ==
    /\ SearchUnused /\ IndexUnused /\ CorpusUnused /\ UtilUnused
    /\ piece = None
    /\ piece_chunks = <<>>

\* product_to_chunks, one round of `for c in chonks`, on the first piece
ChunkPiece ==
    /\ piece = None
    /\ \E p \in {LaptopDoc, BareDoc}, txt \in PieceTexts :
        /\ piece' = Some(txt)
        /\ piece_chunks' = PieceToChunks(p, txt)
    /\ UNCHANGED <<searchVars, indexVars, corpusVars, utilVars>>

NextClean == ChunkPiece

SpecClean == InitClean /\ [][NextClean]_vars

-----------------------------------------------------------------------------
(* _tokenize on the characters of a text *)

\* The characters of a text
MaxText == 4

LowerLetters ==
    {"a", "b", "c", "d", "e", "f", "g", "h", "i", "j", "k", "l", "m", "n", "o",
     "p", "q", "r", "s", "t", "u", "v", "w", "x", "y", "z"}
UpperLetters == {"T", "H", "E"}
Digits == {"0", "1"}

\* str.lower(), a character at a time
LowerOf(c) ==
    CASE c = "T" -> "t"
      [] c = "H" -> "h"
      [] c = "E" -> "e"
      [] OTHER -> c

\* [A-Za-z0-9_]
IsWordChar(c) == c \in LowerLetters \cup UpperLetters \cup Digits \cup {"_"}

\* re.findall(r"[A-Za-z0-9_]+", ..): the maximal runs, from left to right;
\* run is the run the scan is in
RECURSIVE Findall(_, _)
Findall(cs, run) ==
    IF cs = <<>> THEN (IF run = <<>> THEN <<>> ELSE <<run>>)
    ELSE IF IsWordChar(Head(cs)) THEN Findall(Tail(cs), Append(run, Head(cs)))
    ELSE (IF run = <<>> THEN <<>> ELSE <<run>>) \o Findall(Tail(cs), <<>>)

\* [t for t in toks if t not in STOPWORDS]
RECURSIVE NotStopwords(_)
NotStopwords(toks) ==
    IF toks = <<>> THEN <<>>
    ELSE (IF \E s \in STOPWORDS : Chars(s) = Head(toks) THEN <<>> ELSE <<Head(toks)>>)
         \o NotStopwords(Tail(toks))

\* _tokenize with the stopwords taken out before the text is lowercased
TokenizeText_LowerLast(cs) ==
    LET toks == NotStopwords(Findall(cs, <<>>))
    IN  [i \in 1..Len(toks) |-> [j \in 1..Len(toks[i]) |-> LowerOf(toks[i][j])]]

\* _tokenize on a text given as its characters; the _tokenize above is this
\* function on a text given as its items
TokenizeText(cs) ==
    NotStopwords(Findall([i \in 1..Len(cs) |-> LowerOf(cs[i])], <<>>))

\* "the gaming laptop is great"
GreatLaptop ==
    Chars("the") \o <<" ">> \o Chars("gaming") \o <<" ">> \o Chars("laptop")
        \o <<" ">> \o Chars("is") \o <<" ">> \o Chars("great")

\* The texts: every string of up to MaxText characters of a small alphabet,
\* and the sentence above
TokAlphabet == {"T", "t", "h", "e", "H", "1", "_", " ", "-"}
TokTexts ==
    UNION { [1..n -> TokAlphabet] : n \in 0..MaxText } \cup {GreatLaptop}

InitTokenize ==
    /\ SearchUnused /\ IndexUnused /\ CorpusUnused /\ ChunkUnused
    /\ tok_text \in {Some(t) : t \in TokTexts}
    /\ corpus_toks = None
    /\ query_toks = None
    /\ PriceUnused /\ first_call = None /\ ScrapeUnused

\* build_or_load_bm25: tokenized_corpus = [_tokenize(c.text) for c in all_chunks]
TokenizeChunkText ==
    /\ tok_text # None /\ corpus_toks = None
    /\ corpus_toks' = Some(TokenizeText(Val(tok_text)))
    /\ UNCHANGED <<tok_text, query_toks, priceVars, first_call, scrapeVars>>
    /\ UNCHANGED <<searchVars, indexVars, corpusVars, chunkVars>>

\* bm25_search: q_tokens = _tokenize(query)
TokenizeQuery ==
    /\ tok_text # None /\ query_toks = None
    /\ query_toks' = Some(TokenizeText(Val(tok_text)))
    /\ UNCHANGED <<tok_text, corpus_toks, priceVars, first_call, scrapeVars>>
    /\ UNCHANGED <<searchVars, indexVars, corpusVars, chunkVars>>

NextTokenize == TokenizeChunkText \/ TokenizeQuery

SpecTokenize == InitTokenize /\ [][NextTokenize]_vars

-----------------------------------------------------------------------------
(* _parse_price_value on the characters of a display string *)

\* The characters of a display string
MaxPriceText == 4

\* Values are counted in units of 1/PriceScale, fine enough for every
\* fraction the strings can hold: a fraction follows a digit and a point
PriceScale == 10 ^ (MaxPriceText - 2)

DigitVal(c) ==
    CASE c = "0" -> 0 [] c = "1" -> 1 [] c = "2" -> 2 [] c = "5" -> 5 [] c = "9" -> 9
IsDigit(c) == c \in {"0", "1", "2", "5", "9"}

\* s.replace(",", "")
NoCommas(cs) == SelectSeq(cs, LAMBDA c : c # ",")

\* The length of the run of digits at the head of a string
RECURSIVE DigitRun(_)
DigitRun(cs) == IF cs # <<>> /\ IsDigit(Head(cs)) THEN 1 + DigitRun(Tail(cs)) ELSE 0

\* re.findall(r"(\d+(?:\.\d+)?)", s): from left to right, a run of digits
\* and, where a point and another run of digits follow, those too
RECURSIVE FindNumbers(_)
FindNumbers(cs) ==
    IF cs = <<>> THEN <<>>
    ELSE IF ~IsDigit(Head(cs)) THEN FindNumbers(Tail(cs))
    ELSE LET w == DigitRun(cs)
             after == SubSeq(cs, w + 1, Len(cs))
             f == IF after # <<>> /\ Head(after) = "." THEN DigitRun(Tail(after)) ELSE 0
         IN  IF f > 0
             THEN <<[whole |-> SubSeq(cs, 1, w), frac |-> SubSeq(after, 2, f + 1)]>>
                  \o FindNumbers(SubSeq(after, f + 2, Len(after)))
             ELSE <<[whole |-> SubSeq(cs, 1, w), frac |-> <<>>]>> \o FindNumbers(after)

\* float(x), in units of 1/PriceScale
RECURSIVE DigitsValue(_)
DigitsValue(ds) ==
    IF ds = <<>> THEN 0
    ELSE 10 * DigitsValue(SubSeq(ds, 1, Len(ds) - 1)) + DigitVal(ds[Len(ds)])
FloatOf(x) ==
    DigitsValue(x.whole) * PriceScale
        + DigitsValue(x.frac) * (PriceScale \div (10 ^ Len(x.frac)))

\* min(vals)
RECURSIVE MinOf(_)
MinOf(vals) ==
    IF Len(vals) = 1 THEN vals[1] ELSE Min2(Head(vals), MinOf(Tail(vals)))

\* _parse_price_value without the s.replace(",", "")
_parse_price_value_KeepCommas(cs) ==
    LET nums == FindNumbers(cs)
    IN  IF cs = <<>> THEN None
        ELSE IF nums = <<>> THEN None
        ELSE Some(MinOf([i \in 1..Len(nums) |-> FloatOf(nums[i])]))

_parse_price_value(cs) ==
    LET nums == FindNumbers(NoCommas(cs))
    IN  IF cs = <<>> THEN None
        ELSE IF nums = <<>> THEN None
        ELSE Some(MinOf([i \in 1..Len(nums) |-> FloatOf(nums[i])]))

\* "1,999" and "1500 - 2100"
Price1999 == <<"1", ",", "9", "9", "9">>
PriceRange == <<"1", "5", "0", "0", " ", "-", " ", "2", "1", "0", "0">>

\* The display strings: every string of up to MaxPriceText characters of a
\* small alphabet, and the two above
PriceAlphabet == {"0", "1", "2", ",", ".", "-", " "}
PriceTexts ==
    UNION { [1..n -> PriceAlphabet] : n \in 0..MaxPriceText }
        \cup {Price1999, PriceRange}

InitPrice ==
    /\ SearchUnused /\ IndexUnused /\ CorpusUnused /\ ChunkUnused
    /\ TokUnused /\ first_call = None /\ ScrapeUnused
    /\ price_text \in PriceTexts
    /\ price_out = None

\* parse_combined_products_from_md: price_value = _parse_price_value(m.group(1))
ParsePrice ==
    /\ price_out = None
    /\ price_out' = Some(_parse_price_value(price_text))
    /\ UNCHANGED <<price_text, tokVars, first_call, scrapeVars>>
    /\ UNCHANGED <<searchVars, indexVars, corpusVars, chunkVars>>

NextPrice == ParsePrice

SpecPrice == InitPrice /\ [][NextPrice]_vars

-----------------------------------------------------------------------------
(* The parsers on arbitrary corpus text *)

\* The blocks of a text
MaxBlocks == 2

\* "**Rating:** w/5" and "**Rating:** w.f/5"
RatingLine(w, f) == Some([whole |-> w, frac |-> f])

\* Blocks a corpus file can hold: what the builder writes, and what it never
\* writes (no heading, an empty heading, no DocID line, a DocID that starts
\* with a character outside [A-Za-z0-9_\-], arbitrary text)
BlockPool ==
    { [heading |-> Some("Mouse"), starred |-> TRUE, docid |-> Some(<<"daraz_", "101">>),
       source |-> Some("Daraz"), url |-> Some(UrlA), rating |-> RatingLine(4, Some(5))],
      [heading |-> None, starred |-> TRUE, docid |-> Some(<<"a1">>),
       source |-> Some("Daraz"), url |-> None, rating |-> None],
      [heading |-> None, starred |-> FALSE, docid |-> Some(<<"a2">>),
       source |-> None, url |-> None, rating |-> RatingLine(3, None)],
      [heading |-> Some(""), starred |-> TRUE, docid |-> Some(<<"a3">>),
       source |-> Some("StarTech"), url |-> None, rating |-> None],
      [heading |-> Some(""), starred |-> FALSE, docid |-> Some(<<"a4">>),
       source |-> None, url |-> None, rating |-> None],
      [heading |-> Some("Lamp"), starred |-> TRUE, docid |-> None,
       source |-> Some("Daraz"), url |-> None, rating |-> RatingLine(5, None)],
      [heading |-> Some("Desk"), starred |-> TRUE, docid |-> Some(<<"startech_">> \o UrlA),
       source |-> Some("StarTech"), url |-> Some(UrlA), rating |-> RatingLine(5, Some(9))],
      [heading |-> Some("Chair"), starred |-> TRUE, docid |-> Some(<<"c9">>),
       source |-> Some("StarTech"), url |-> Some(UrlB), rating |-> RatingLine(9, None)],
      [heading |-> Some("Bag"), starred |-> FALSE, docid |-> Some(<<"/", "x">>),
       source |-> None, url |-> None, rating |-> RatingLine(14, Some(5))],
      [heading |-> None, starred |-> FALSE, docid |-> None,
       source |-> None, url |-> None, rating |-> None] }

\* The texts: up to MaxBlocks blocks
TextLists == UNION { [1..n -> BlockPool] : n \in 0..MaxBlocks }

InitParser ==
    /\ SearchUnused /\ IndexUnused /\ ChunkUnused /\ UtilUnused
    /\ raw_items = <<>> /\ next_item = 1 /\ seen_ids = {}
    /\ all_unified_products = <<>>
    /\ md_text \in TextLists
    /\ parsed = <<>>
    /\ stage = "written"

\* app.py, parse_products_from_md: DOC_BLOCK_RE, (?P<body>.*?), matches the
\* empty string at position 0 of any text, and m.group("attrs") of the first
\* match raises IndexError, the pattern having no group of that name
ParseProducts ==
    /\ stage = "written"
    /\ stage' = "raised"
    /\ UNCHANGED <<raw_items, next_item, seen_ids, all_unified_products, md_text,
                   parsed>>
    /\ UNCHANGED <<searchVars, indexVars, chunkVars, utilVars>>

NextParser == ParseCorpus \/ ParseProducts

SpecParser == InitParser /\ [][NextParser]_vars


-----------------------------------------------------------------------------
(* run_scraper of startech_scraper.py: batching the products into the CSV *)

BATCH_SIZE == 50

\* Category chunks one run goes through
MaxChunkCalls == 3

\* What one process_category_chunk call does: it raises (a category of the
\* chunk failed after its retries, whatever the earlier categories of the
\* chunk gave is lost with it), or it returns the list of n products
ProductCounts == {0, 20, 30, 60}
ChunkOutcomes ==
    {[raises |-> TRUE, n |-> 0]} \cup {[raises |-> FALSE, n |-> k] : k \in ProductCounts}

\* The products one call returned, kept together as one run of the buffer
ProductsOf(i, k) == [chunk |-> i, n |-> k]

\* len() of a list held as runs of products
RECURSIVE Size(_)
Size(runs) == IF runs = <<>> THEN 0 ELSE Head(runs).n + Size(Tail(runs))

\* As ExtendAndFlush, but the buffer is not emptied after the flush
ExtendAndFlush_KeepBuffer(buffer, batches, prods) ==
    LET extended == Append(buffer, prods) IN
    IF Size(extended) >= BATCH_SIZE
    THEN [all_products |-> extended, csv_batches |-> Append(batches, extended)]
    ELSE [all_products |-> extended, csv_batches |-> batches]

\* all_products.extend(products), then the flush of a full buffer
ExtendAndFlush(buffer, batches, prods) ==
    LET extended == Append(buffer, prods) IN
    IF Size(extended) >= BATCH_SIZE
    THEN [all_products |-> <<>>, csv_batches |-> Append(batches, extended)]
    ELSE [all_products |-> extended, csv_batches |-> batches]

InitScraper ==
    /\ SearchUnused /\ IndexUnused /\ CorpusUnused /\ ChunkUnused
    /\ TokUnused /\ PriceUnused /\ first_call = None /\ DetailUnused
    /\ scraper_pc = "start"
    /\ chunk_results \in UNION {[1..n -> ChunkOutcomes] : n \in 0..MaxChunkCalls}
    /\ chunk_i = 1
    /\ all_products = <<>>
    /\ csv_batches = <<>>

\* init_csv, then no category to scrape: the early return
NoCategories ==
    /\ scraper_pc = "start" /\ chunk_results = <<>>
    /\ scraper_pc' = "returned"
    /\ UNCHANGED <<chunk_results, chunk_i, all_products, csv_batches>>
    /\ UNCHANGED <<searchVars, indexVars, corpusVars, chunkVars, tokVars, priceVars, first_call, detailVars>>

\* init_csv, then the buffer and the counters are set up
StartScraper ==
    /\ scraper_pc = "start" /\ chunk_results # <<>>
    /\ scraper_pc' = "loop"
    /\ all_products' = <<>>
    /\ UNCHANGED <<chunk_results, chunk_i, csv_batches>>
    /\ UNCHANGED <<searchVars, indexVars, corpusVars, chunkVars, tokVars, priceVars, first_call, detailVars>>

\* One round of the loop whose process_category_chunk call returns
ChunkReturns ==
    /\ scraper_pc = "loop" /\ chunk_i <= Len(chunk_results)
    /\ ~chunk_results[chunk_i].raises
    /\ LET n == chunk_results[chunk_i].n
           after == ExtendAndFlush(all_products, csv_batches, ProductsOf(chunk_i, n))
       IN  IF n > 0
           THEN /\ all_products' = after.all_products
                /\ csv_batches' = after.csv_batches
           ELSE UNCHANGED <<all_products, csv_batches>>
    /\ chunk_i' = chunk_i + 1
    /\ UNCHANGED <<scraper_pc, chunk_results>>
    /\ UNCHANGED <<searchVars, indexVars, corpusVars, chunkVars, tokVars, priceVars, first_call, detailVars>>

\* One round of the loop whose process_category_chunk call raises: the
\* error is logged and the loop goes on
ChunkRaises ==
    /\ scraper_pc = "loop" /\ chunk_i <= Len(chunk_results)
    /\ chunk_results[chunk_i].raises
    /\ chunk_i' = chunk_i + 1
    /\ UNCHANGED <<scraper_pc, chunk_results, all_products, csv_batches>>
    /\ UNCHANGED <<searchVars, indexVars, corpusVars, chunkVars, tokVars, priceVars, first_call, detailVars>>

\* After the loop: what is left in the buffer is saved, and run_scraper returns
FinalFlush ==
    /\ scraper_pc = "loop" /\ chunk_i > Len(chunk_results)
    /\ IF all_products # <<>>
       THEN csv_batches' = Append(csv_batches, all_products)
       ELSE UNCHANGED csv_batches
    /\ scraper_pc' = "returned"
    /\ UNCHANGED <<chunk_results, chunk_i, all_products>>
    /\ UNCHANGED <<searchVars, indexVars, corpusVars, chunkVars, tokVars, priceVars, first_call, detailVars>>

NextScraper == NoCategories \/ StartScraper \/ ChunkReturns \/ ChunkRaises \/ FinalFlush

SpecScraper == InitScraper /\ [][NextScraper]_vars


-----------------------------------------------------------------------------
(* scrape_product_detail of detail_main.py: the attempts on one product page *)

MAX_DETAIL_RETRIES == 2

\* The url argument: None, or a string held as its characters
DetailUrls ==
    {None, Some(<<>>), Some(<<"f", "t", "p", ":">>), Some(<<"h", "t", "t">>),
     Some(<<" ", "h", "t", "t", "p", ":">>), Some(<<"h", "t", "t", "p">>),
     Some(<<"h", "t", "t", "p", ":">>), Some(<<"h", "t", "t", "p", "s", ":">>)}

\* str.startswith
StartsWith(s, prefix) ==
    /\ Len(s) >= Len(prefix)
    /\ \A i \in 1..Len(prefix) : s[i] = prefix[i]

\* The test of line 92, negated: the url is one the function tries to fetch
UrlAccepted(u) == u # None /\ Val(u) # <<>> /\ StartsWith(Val(u), <<"h", "t", "t", "p">>)

\* json.dumps of a dict: the string that holds the keys and values of obj
JsonDumps(obj) == [json |-> obj]

InvalidUrlJson == JsonDumps([error |-> Some("Invalid URL"), url |-> None])
FailedJson(u) == JsonDumps([error |-> Some("Failed after attempts"), n |-> MAX_DETAIL_RETRIES, url |-> u])
\* What extract_product_details_from_page gives: a dict that holds the url
ProductJson(u) == JsonDumps([error |-> None, url |-> u])

\* Where the loop goes after an attempt that did not return
AfterFailedAttempt == IF attempt < MAX_DETAIL_RETRIES THEN "delay" ELSE "exhausted"

InitDetail ==
    /\ SearchUnused /\ IndexUnused /\ CorpusUnused /\ ChunkUnused
    /\ TokUnused /\ PriceUnused /\ first_call = None /\ ScraperUnused
    /\ detail_pc = "start"
    /\ detail_url \in DetailUrls
    /\ attempt = 1
    /\ browser = "unbound"
    /\ attempt_log = <<>>
    /\ delays = <<>>
    /\ detail_ret = None

\* The url is None, empty or does not start with http
InvalidUrl ==
    /\ detail_pc = "start" /\ ~UrlAccepted(detail_url)
    /\ detail_ret' = Some(InvalidUrlJson)
    /\ detail_pc' = "returned"
    /\ UNCHANGED <<detail_url, attempt, browser, attempt_log, delays>>
    /\ UNCHANGED <<searchVars, indexVars, corpusVars, chunkVars, tokVars, priceVars, first_call, scraperVars>>

\* The url passes the test: the loop starts with attempt 1
StartAttempts ==
    /\ detail_pc = "start" /\ UrlAccepted(detail_url)
    /\ detail_pc' = "attempt"
    /\ attempt' = 1
    /\ UNCHANGED <<detail_url, browser, attempt_log, delays, detail_ret>>
    /\ UNCHANGED <<searchVars, indexVars, corpusVars, chunkVars, tokVars, priceVars, first_call, scraperVars>>

\* The page loads and extract_product_details_from_page returns its dict
AttemptExtracts ==
    /\ detail_pc = "attempt"
    /\ browser' = "bound"
    /\ attempt_log' = Append(attempt_log, "extracted")
    /\ detail_ret' = Some(ProductJson(detail_url))
    /\ detail_pc' = "returned"
    /\ UNCHANGED <<detail_url, attempt, delays>>
    /\ UNCHANGED <<searchVars, indexVars, corpusVars, chunkVars, tokVars, priceVars, first_call, scraperVars>>

\* The page loads and extract_product_details_from_page returns None
AttemptExtractsNothing ==
    /\ detail_pc = "attempt"
    /\ browser' = "bound"
    /\ attempt_log' = Append(attempt_log, "not_extracted")
    /\ detail_pc' = AfterFailedAttempt
    /\ UNCHANGED <<detail_url, attempt, delays, detail_ret>>
    /\ UNCHANGED <<searchVars, indexVars, corpusVars, chunkVars, tokVars, priceVars, first_call, scraperVars>>

\* A Playwright call of the attempt raises its TimeoutError, before the
\* launch has returned (early) or after the local was assigned.  The with
\* block has stopped Playwright by the time the handler of line 146 runs
\* "if browser: browser.close()": reading a local never assigned raises
\* UnboundLocalError, and close() on a browser whose Playwright has stopped
\* returns or raises, as the library decides.
AttemptTimesOut ==
    /\ detail_pc = "attempt"
    /\ \E early, close_raises \in BOOLEAN :
          /\ browser' = IF early THEN browser ELSE "bound"
          /\ detail_pc' = IF browser' = "unbound" \/ close_raises
                          THEN "raised" ELSE AfterFailedAttempt
    /\ attempt_log' = Append(attempt_log, "timeout")
    /\ UNCHANGED <<detail_url, attempt, delays, detail_ret>>
    /\ UNCHANGED <<searchVars, indexVars, corpusVars, chunkVars, tokVars, priceVars, first_call, scraperVars>>

\* Another exception in the attempt: the handler of line 149 tests that the
\* local exists before it touches it
AttemptFails ==
    /\ detail_pc = "attempt"
    /\ \E early \in BOOLEAN : browser' = IF early THEN browser ELSE "bound"
    /\ attempt_log' = Append(attempt_log, "error")
    /\ detail_pc' = AfterFailedAttempt
    /\ UNCHANGED <<detail_url, attempt, delays, detail_ret>>
    /\ UNCHANGED <<searchVars, indexVars, corpusVars, chunkVars, tokVars, priceVars, first_call, scraperVars>>

\* The sleep of lines 154-157, then the next round of the loop
RetryDelay ==
    /\ detail_pc = "delay"
    /\ delays' = Append(delays, attempt)
    /\ attempt' = attempt + 1
    /\ detail_pc' = "attempt"
    /\ UNCHANGED <<detail_url, browser, attempt_log, detail_ret>>
    /\ UNCHANGED <<searchVars, indexVars, corpusVars, chunkVars, tokVars, priceVars, first_call, scraperVars>>

\* The loop is over without a return
GiveUp ==
    /\ detail_pc = "exhausted"
    /\ detail_ret' = Some(FailedJson(detail_url))
    /\ detail_pc' = "returned"
    /\ UNCHANGED <<detail_url, attempt, browser, attempt_log, delays>>
    /\ UNCHANGED <<searchVars, indexVars, corpusVars, chunkVars, tokVars, priceVars, first_call, scraperVars>>

NextDetail ==
    \/ InvalidUrl \/ StartAttempts \/ AttemptExtracts \/ AttemptExtractsNothing
    \/ AttemptTimesOut \/ AttemptFails \/ RetryDelay \/ GiveUp

SpecDetail == InitDetail /\ [][NextDetail]_vars


-----------------------------------------------------------------------------
(* Properties of bm25_search *)

Done == pc = "done"

\* Corpus positions of the chunks that pass the filters of the call
Passing == {i \in 1..Len(chunks) : _passes_filters(chunks[i], args.F)}
PassingDocs == {chunks[i].doc_id : i \in Passing}

NonIncreasing(ps) == \A a \in 1..Len(ps) - 1 : ps[a].s >= ps[a + 1].s

\* C1: with diversify and top_k = k >= 1, if the filter-passing chunks belong to
\* at least k distinct doc_ids, the result has exactly k entries and their
\* doc_ids are pairwise distinct.
C1_DiversifyCap ==
    (Done /\ args.diversify /\ args.top_k >= 1
          /\ Cardinality(PassingDocs) >= args.top_k)
    => /\ Len(result) = args.top_k
       /\ \A a, b \in 1..Len(result) :
             a # b => chunks[result[a].i].doc_id # chunks[result[b].i].doc_id

\* A call with top_k = 2 over three passing chunks, two of them of one doc_id:
\* the second chunk of that doc_id was passed over
C1_Witness ==
    /\ Done /\ args.diversify /\ args.top_k = 2
    /\ Cardinality(Passing) = 3 /\ Cardinality(PassingDocs) = 2
    /\ Len(result) = 2
    /\ chunks[pairs[1].i].doc_id = chunks[pairs[2].i].doc_id
    /\ result[2] = pairs[3]

\* C2: for every top_k >= 0 the returned list has at most top_k entries.
C2_LengthAtMostTopK == Done => Len(result) <= args.top_k

\* C3: no corpus position appears twice in the returned list, which is
\* therefore never longer than the number of filter-passing chunks.
C3_Deduplicated ==
    Done => /\ \A a, b \in 1..Len(result) : a # b => result[a].i # result[b].i
            /\ Len(result) <= Cardinality(Passing)

C10_TiesInCorpusOrder ==
    /\ pc \in {"sorted", "backfill", "done"} =>
          \A a, b \in 1..Len(pairs) :
             (a < b /\ pairs[a].s = pairs[b].s) => pairs[a].i < pairs[b].i
    /\ (Done /\ ~args.diversify) =>
          \A a, b \in 1..Len(result) :
             (a < b /\ result[a].s = result[b].s) => result[a].i < result[b].i

\* A plain call returning two chunks of equal, non-zero final score behind a
\* chunk of a higher score that stands later in the corpus
C10_Witness ==
    /\ Done /\ ~args.diversify /\ Len(result) = 3
    /\ result[2].s = result[3].s /\ result[2].s > 0
    /\ result[1].s > result[2].s /\ result[1].i > result[2].i


-----------------------------------------------------------------------------
(* Properties of the filters *)

Candidates == {pairs[a].i : a \in 1..Len(pairs)}
Filtered == pc \in {"sorted", "backfill", "done"}

\* The call's filters with only one of them kept
OnlySources == [NoFilters EXCEPT !.allowed_sources = args.F.allowed_sources]
OnlyCategories == [NoFilters EXCEPT !.allowed_categories = args.F.allowed_categories]
OnlyContains == [NoFilters EXCEPT !.category_contains = args.F.category_contains]
OnlyPriceMin == [NoFilters EXCEPT !.price_min = args.F.price_min]
OnlyPriceMax == [NoFilters EXCEPT !.price_max = args.F.price_max]
OnlyRatingMin == [NoFilters EXCEPT !.rating_min = args.F.rating_min]

\* C4 as claimed: a chunk whose field is None passes the filter on that field,
\* for each of the six filters.
C4_AbsentFieldPasses ==
    Filtered =>
        \A i \in 1..Len(chunks) :
            LET c == chunks[i]
            IN  /\ c.source = None => _passes_filters(c, OnlySources)
                /\ c.category = None => /\ _passes_filters(c, OnlyCategories)
                                        /\ _passes_filters(c, OnlyContains)
                /\ c.price_value = None => /\ _passes_filters(c, OnlyPriceMin)
                                           /\ _passes_filters(c, OnlyPriceMax)
                /\ c.rating_avg = None => _passes_filters(c, OnlyRatingMin)

\* C4 amended: a chunk without price passes price_min and price_max, a chunk
\* without rating passes rating_min, and such a chunk is a candidate when no
\* other filter is set; but a chunk without source fails every non-empty
\* allowed_sources, and a chunk without category fails every non-empty
\* allowed_categories and every non-empty category_contains, and is then no
\* candidate.
C4_AbsentNumberPasses ==
    Filtered =>
        \A i \in 1..Len(chunks) :
            LET c == chunks[i]
                F == args.F
                numeric_only == /\ ~TruthySet(F.allowed_sources)
                                /\ ~TruthySet(F.allowed_categories)
                                /\ ~TruthyStr(F.category_contains)
            IN  /\ c.price_value = None => /\ _passes_filters(c, OnlyPriceMin)
                                           /\ _passes_filters(c, OnlyPriceMax)
                /\ c.rating_avg = None => _passes_filters(c, OnlyRatingMin)
                /\ (c.price_value = None /\ c.rating_avg = None /\ numeric_only)
                      => i \in Candidates
                /\ (c.source = None /\ TruthySet(F.allowed_sources))
                      => (~_passes_filters(c, OnlySources) /\ i \notin Candidates)
                /\ (c.category = None /\ TruthySet(F.allowed_categories))
                      => (~_passes_filters(c, OnlyCategories) /\ i \notin Candidates)
                /\ (c.category = None /\ TruthyStr(F.category_contains))
                      => (~_passes_filters(c, OnlyContains) /\ i \notin Candidates)

\* A call with price_max set over a table holding a chunk without price, which
\* is a candidate, next to a chunk the bound rejects
C4_Witness ==
    /\ Filtered /\ args.F.price_max # None
    /\ \E i \in Candidates : chunks[i].price_value = None
    /\ \E j \in 1..Len(chunks) : j \notin Candidates

-----------------------------------------------------------------------------
(* Filter monotonicity *)

\* The filters a call's filters are compared with
TightenChoices ==
    [allowed_sources : {None}, category_contains : {None}, price_min : {None},
     allowed_categories : {None, Some({}), Some({"Laptop"}), Some({"Laptop", "Chair"})},
     price_max : {None, Some(3000), Some(1000)},
     rating_min : {None, Some(40), Some(45)}]

\* F2 is at least as tight as F1 in price_max and rating_min
TighterBounds(F2, F1) ==
    /\ F2.allowed_sources = F1.allowed_sources
    /\ F2.category_contains = F1.category_contains
    /\ F2.price_min = F1.price_min
    /\ F1.price_max # None =>
          (F2.price_max # None /\ Val(F2.price_max) <= Val(F1.price_max))
    /\ F1.rating_min # None =>
          (F2.rating_min # None /\ Val(F2.rating_min) >= Val(F1.rating_min))

\* ... and its category set is a subset of F1's, the empty set included
TighterAsClaimed(F2, F1) ==
    /\ TighterBounds(F2, F1)
    /\ F1.allowed_categories # None =>
          (F2.allowed_categories # None
             /\ Val(F2.allowed_categories) \subseteq Val(F1.allowed_categories))

\* ... and its category set is a non-empty subset of F1's, when F1 has one
TighterNonEmpty(F2, F1) ==
    /\ TighterBounds(F2, F1)
    /\ TruthySet(F1.allowed_categories) =>
          (TruthySet(F2.allowed_categories)
             /\ Val(F2.allowed_categories) \subseteq Val(F1.allowed_categories))

CountUnder(F2) ==
    Len(bm25_search(chunks, scores, args.query, args.top_k, F2, args.diversify))

\* C5 as claimed: filters at least as tight (lower price_max, higher
\* rating_min, a subset of the category set, the empty set included) never
\* return more results for the same corpus, query, top_k and diversify.
C5_Monotone ==
    Done => \A F2 \in TightenChoices :
                TighterAsClaimed(F2, args.F) => CountUnder(F2) <= Len(result)

\* C5 amended: the same, for a category set narrowed to a non-empty subset (an
\* empty allowed_categories is no filter at all).
C5_MonotoneNonEmpty ==
    Done => \A F2 \in TightenChoices :
                TighterNonEmpty(F2, args.F) => CountUnder(F2) <= Len(result)

\* A call that returned two entries and returns fewer under a lower price_max
C5_Witness ==
    /\ Done /\ Len(result) = 2 /\ args.F.price_max = Some(3000)
    /\ CountUnder([args.F EXCEPT !.price_max = Some(1000)]) = 1
    /\ result = bm25_search(chunks, scores, args.query, args.top_k, args.F,
                            args.diversify)


\* C8: through the Search button with no widget set and the default top_k, the
\* query "laptop under 100000" over the corpus of the laptop (95000) and the
\* chair (3000) returns exactly one entry, the laptop's chunk, with score > 0;
\* and no returned chunk is without a token of the query.
C8_OnlyTheLaptop ==
    /\ (/\ Done /\ ui.used
        /\ chunks = all_chunks(<<LaptopDoc, ChairDoc>>)
        /\ ui.query = <<W("laptop"), W("under"), N(100000)>>
        /\ ui.sel_sources = {} /\ ui.price_max_ui = <<>> /\ ui.rating_min_ui = <<>>)
       => /\ Len(result) = 1
          /\ chunks[result[1].i].doc_id = LaptopDoc.doc_id
          /\ result[1].s > 0
    /\ Done =>
          \A a \in 1..Len(result) :
             Range(_tokenize(args.query))
                \cap Range(_tokenize(chunks[result[a].i].text)) # {}

-----------------------------------------------------------------------------
(* Properties of the index directory *)

\* C6: the chunk table a call of build_or_load_bm25 returns is the chunk table
\* derived from the products passed to that call, whatever the index directory
\* holds from earlier calls.
C6_ChunkTableFresh == products # <<>> => chunk_table = all_chunks(products)


-----------------------------------------------------------------------------
(* Properties of the corpus *)

\* C7: no two records parse_combined_products_from_md returns for the file the
\* builder wrote have the same doc_id.
C7_UniqueDocIds ==
    stage = "parsed" =>
        \A a, b \in 1..Len(parsed) : a # b => parsed[a].doc_id # parsed[b].doc_id

-----------------------------------------------------------------------------
(* Properties of the Search button's handler *)

\* The source a hint phrase of the query names
HintedSource(q) ==
    IF Adjacent(q, "daraz", "only") \/ Adjacent(q, "only", "daraz") THEN Some("Daraz")
    ELSE IF Adjacent(q, "startech", "only") \/ Adjacent(q, "only", "startech")
    THEN Some("StarTech")
    ELSE None

ResultSources == {chunks[result[a].i].source : a \in 1..Len(result)}

\* C11 as claimed: when the query holds a source hint phrase, every returned
\* chunk has the hinted source, whatever is selected in the widgets.
C11_HintAlwaysApplies ==
    (Done /\ ui.used /\ HintedSource(ui.query) # None)
        => ResultSources \subseteq {HintedSource(ui.query)}

\* C11 amended: the hint applies when no source is selected in the Source
\* widget; a selection there replaces the hint, and every returned chunk then
\* has a selected source.
C11_HintUnlessSelected ==
    (Done /\ ui.used /\ HintedSource(ui.query) # None)
        => IF ui.sel_sources = {}
           THEN ResultSources \subseteq {HintedSource(ui.query)}
           ELSE ResultSources \subseteq {Some(x) : x \in ui.sel_sources}

\* A "startech only" search with no source selected that returned a StarTech
\* chunk and left a Daraz chunk of the table out
C11_Witness ==
    /\ Done /\ ui.used /\ ui.sel_sources = {}
    /\ HintedSource(ui.query) = Some("StarTech")
    /\ result # <<>>
    /\ \E i \in 1..Len(chunks) :
          chunks[i].source = Some("Daraz") /\ \A a \in 1..Len(result) : result[a].i # i

\* The text of a number field is a number: one run of digits
IsNumberText(x) == Len(x) = 1 /\ x[1].k = "n"

\* C12: the price_max passed to bm25_search is the widget's value when its text
\* is a number and the query's price_max otherwise; likewise rating_min; the
\* price_min passed is always the query's.
C12_FilterMerge ==
    (ui.used /\ pc = "called") =>
        LET constraints == _parse_query_constraints(ui.query)
        IN  /\ args.F.price_max =
                  IF IsNumberText(ui.price_max_ui) THEN Some(ui.price_max_ui[1].n)
                  ELSE constraints.price_max
            /\ args.F.rating_min =
                  IF IsNumberText(ui.rating_min_ui) THEN Some(10 * ui.rating_min_ui[1].n)
                  ELSE constraints.rating_min
            /\ args.F.price_min = constraints.price_min

\* A search whose query and widgets both give price_max and rating_min, the
\* query also giving price_min
C12_Witness ==
    /\ ui.used /\ pc = "called"
    /\ ui.price_max_ui = <<N(1000)>> /\ ui.rating_min_ui = <<N(3)>>
    /\ _parse_query_constraints(ui.query) =
          [price_min |-> Some(2000), price_max |-> Some(100000),
           rating_min |-> Some(40), source_hint |-> None]
    /\ args.F.price_max = Some(1000) /\ args.F.rating_min = Some(30)
    /\ args.F.price_min = Some(2000)

-----------------------------------------------------------------------------
(* Properties of concurrent and of empty index builds *)

\* The tokenize / build / write section of build_or_load_bm25
InBuildSection(t) ==
    session[t].pc \in {"building", "built", "bm25_open", "dumped", "meta_open"}

\* C13: of two overlapping calls for the same signature at most one is in
\* the tokenize/build/write section; the other waits and loads.
C13_SingleFlight ==
    \A t1, t2 \in Sessions :
        (t1 # t2 /\ InBuildSection(t1) /\ InBuildSection(t2))
            => SigOf(t1) # SigOf(t2)

\* C14: a call that builds the index from zero chunks raises no exception (and
\* a query on that index then gives the empty list).
C14_EmptyIndexBuilds ==
    \A t \in Sessions :
        session[t].all_chunks = <<>> => session[t].pc # "raised"


-----------------------------------------------------------------------------
(* Properties of the parsers *)

\* C15: each of the two parsers returns a list and raises nothing, whatever
\* text it is given
C15_ParsersTotal == stage # "raised"

\* The blocks of the text with a DocID the parser can read but no title
Untitled ==
    {i \in 1..Len(md_text) :
        /\ md_text[i].docid # None /\ IdMatch(Val(md_text[i].docid)) # <<>>
        /\ (md_text[i].heading = None \/ Val(md_text[i].heading) = "")}

\* C16: a block with a derivable id and no title is kept, under a title that
\* is not empty
C16_UntitledKept ==
    stage = "parsed" =>
        \A i \in Untitled :
            \E j \in 1..Len(parsed) :
                /\ parsed[j].doc_id = IdMatch(Val(md_text[i].docid))
                /\ parsed[j].title # ""

\* C17: every rating_avg the parser returns is None or within 0..5 (tenths:
\* 0..50)
C17_RatingInRange ==
    stage = "parsed" =>
        \A j \in 1..Len(parsed) :
            parsed[j].rating_avg = None \/ Val(parsed[j].rating_avg) \in 0..50


-----------------------------------------------------------------------------
(* Properties of product_to_chunks and _clean_for_bm25 *)

\* A text with something other than white space in it
HasContent(ts) == \E a \in 1..Len(ts) : ts[a].k # "sp"

\* C18: the text of every chunk of product_to_chunks has content, it is
\* neither empty nor white space only; and a piece with nothing left after
\* _clean_for_bm25 yields no chunk
C18_ChunkTextNotBlank ==
    /\ \A i \in 1..Len(piece_chunks) : HasContent(piece_chunks[i].text)
    /\ (piece # None /\ ~HasContent(Flat(_clean_for_bm25(Val(piece)))))
           => piece_chunks = <<>>

\* A piece that is not blank, with lines that are all dropped by the
\* cleaning, has been through the loop and left no chunk
C18_Witness ==
    /\ piece # None
    /\ HasContent(Flat(Val(piece)))
    /\ _clean_for_bm25(Val(piece)) = <<>>
    /\ piece_chunks = <<>>

\* C19: _clean_for_bm25 leaves no http(s) URL in its output, also of a line
\* that is a URL or begins with one
C19_NoUrlLeft ==
    \A i \in 1..Len(piece_chunks) :
        \A a \in 1..Len(piece_chunks[i].text) : piece_chunks[i].text[a].k # "u"


-----------------------------------------------------------------------------
(* Properties of _parse_query_constraints *)

\* The handler has parsed a query with "between X and Y" in it
BetweenParsed == ui.used /\ pc = "called" /\ BetweenAt(ui.query) # {}
BetweenX == At(ui.query, Least(BetweenAt(ui.query)) + 1).n
BetweenY == At(ui.query, Least(BetweenAt(ui.query)) + 3).n

\* C20 as stated: of a query with "between X and Y" the price bounds are X
\* and Y, the smaller one as price_min; and whenever both price bounds are
\* set, price_min <= price_max
C20_BetweenMinMax ==
    /\ BetweenParsed =>
          /\ args.F.price_min # None /\ args.F.price_max # None
          /\ {Val(args.F.price_min), Val(args.F.price_max)} = {BetweenX, BetweenY}
          /\ Val(args.F.price_min) <= Val(args.F.price_max)
    /\ (ui.used /\ pc = "called" /\ args.F.price_min # None /\ args.F.price_max # None)
          => Val(args.F.price_min) <= Val(args.F.price_max)

\* C20, amended: of a query with "between X and Y" both price bounds are set;
\* without an "under" phrase price_max is the larger of X and Y, without an
\* "at least" phrase price_min is the smaller, whichever is written first;
\* an "under Z" phrase makes price_max Z and an "at least Z" phrase makes
\* price_min the larger of Z and min(X, Y); price_min <= price_max is
\* promised of a query with neither phrase
C20_BetweenUnlessOverridden ==
    BetweenParsed =>
        LET lo == Val(args.F.price_min)
            hi == Val(args.F.price_max)
            u == UnderNum(ui.query)
            a == AtLeastNum(ui.query)
        IN  /\ args.F.price_min # None /\ args.F.price_max # None
            /\ u = {} => /\ hi \in {BetweenX, BetweenY}
                         /\ hi >= BetweenX /\ hi >= BetweenY
            /\ a = {} => /\ lo \in {BetweenX, BetweenY}
                         /\ lo <= BetweenX /\ lo <= BetweenY
            /\ (u = {} /\ a = {}) => lo <= hi
            /\ u # {} => hi = At(ui.query, Least(u)).n
            /\ a # {} => /\ lo >= At(ui.query, Least(a)).n
                         /\ lo >= BetweenX \/ lo >= BetweenY
                         /\ lo \in {BetweenX, BetweenY, At(ui.query, Least(a)).n}

\* A range written with the larger number first, and no other price phrase,
\* has been parsed into price_min < price_max
C20_Witness ==
    /\ BetweenParsed
    /\ BetweenX > BetweenY
    /\ UnderNum(ui.query) = {} /\ AtLeastNum(ui.query) = {}
    /\ args.F.price_min = Some(BetweenY) /\ args.F.price_max = Some(BetweenX)


\* The handler has parsed the query q, the widgets being empty: the filters
\* it passes on are the constraints _parse_query_constraints returned, the
\* source hint as the one allowed source
Parsed(q) == ui.used /\ pc = "called" /\ ui.query = q

\* C21: the examples give the stated constraints and nothing else: "under
\* 2000" only price_max 2000, "between 1500 and 3000" only price_min 1500
\* and price_max 3000, "4.5+ rating" only rating_min 4.5, "startech only"
\* only the hint StarTech, a query without any pattern nothing; and a
\* constraint none of whose patterns matches is None, not 0
C21_ExactConstraints ==
    /\ Parsed(<<W("under"), N(2000)>>)
          => args.F = [NoFilters EXCEPT !.price_max = Some(2000)]
    /\ Parsed(<<W("between"), N(1500), W("and"), N(3000)>>)
          => args.F = [NoFilters EXCEPT !.price_min = Some(1500),
                                        !.price_max = Some(3000)]
    /\ Parsed(<<Dec(4, 5), Sym("+"), W("rating")>>)
          => args.F = [NoFilters EXCEPT !.rating_min = Some(45)]
    /\ Parsed(<<W("startech"), W("only")>>)
          => args.F = [NoFilters EXCEPT !.allowed_sources = Some({"StarTech"})]
    /\ Parsed(<<W("Gaming"), W("laptop")>>) => args.F = NoFilters
    /\ (ui.used /\ pc = "called") =>
          /\ (\A i \in 1..Len(ui.query) : ~IsNum(ui.query, i)) =>
                /\ args.F.price_min = None
                /\ args.F.price_max = None
                /\ args.F.rating_min = None
          /\ (\A i \in 1..Len(ui.query) :
                 ~IsW(ui.query, i, "at") /\ ~IsW(ui.query, i, ">=")
                    /\ ~IsW(ui.query, i, "between"))
                => args.F.price_min = None
          /\ (\A i \in 1..Len(ui.query) : ~IsW(ui.query, i, "only"))
                => args.F.allowed_sources = None

\* "4.5+ rating" has been parsed: the rating floor is 4.5 and no price bound
\* and no source is set
C21_Witness ==
    /\ Parsed(<<Dec(4, 5), Sym("+"), W("rating")>>)
    /\ args.F.rating_min = Some(45)
    /\ args.F.price_min = None /\ args.F.price_max = None
    /\ args.F.allowed_sources = None

\* C22: a query whose only constraint phrase is "rating at least X" or "at
\* least X stars" sets rating_min = X and leaves price_min and price_max unset
C22_RatingPhraseOnlyRating ==
    \A X \in 0..5 :
        (Parsed(<<W("rating"), W("at"), W("least"), N(X)>>)
            \/ Parsed(<<W("at"), W("least"), N(X), W("stars")>>))
        => /\ args.F.rating_min = Some(10 * X)
           /\ args.F.price_min = None
           /\ args.F.price_max = None


-----------------------------------------------------------------------------
(* Properties of _tokenize *)

\* The tokens are the maximal runs of word characters of the lowercased
\* text, less the stopwords, in the order of the text: the text is the
\* separators and tokens of toks, in that order, stopwords put back
RECURSIVE RunsInOrder(_, _)
RunsInOrder(cs, toks) ==
    IF cs = <<>> THEN toks = <<>>
    ELSE IF ~IsWordChar(Head(cs)) THEN RunsInOrder(Tail(cs), toks)
    ELSE LET len == CHOOSE n \in 1..Len(cs) :
                       /\ \A i \in 1..n : IsWordChar(cs[i])
                       /\ (n = Len(cs) \/ ~IsWordChar(cs[n + 1]))
             run == [i \in 1..len |-> LowerOf(cs[i])]
             rest == SubSeq(cs, len + 1, Len(cs))
         IN  IF \E s \in STOPWORDS : Chars(s) = run THEN RunsInOrder(rest, toks)
             ELSE /\ toks # <<>> /\ Head(toks) = run
                  /\ RunsInOrder(rest, Tail(toks))

TokensOk(cs, toks) ==
    /\ RunsInOrder(cs, toks)
    /\ \A i \in 1..Len(toks) :
          /\ toks[i] # <<>>
          /\ ~\E s \in STOPWORDS : Chars(s) = toks[i]
          /\ \A j \in 1..Len(toks[i]) :
                toks[i][j] \notin UpperLetters /\ IsWordChar(toks[i][j])
    /\ cs = GreatLaptop =>
          toks = <<Chars("gaming"), Chars("laptop"), Chars("great")>>

\* C23: _tokenize returns, in the order of the text, the maximal runs of
\* [A-Za-z0-9_] of the lowercased text less the stopwords, so no token is a
\* stopword or has an uppercase letter, and "the gaming laptop is great"
\* gives gaming, laptop, great; the index build and the search apply the
\* same function, so a text gets the same tokens as a chunk text and as a query
C23_TokenizeContract ==
    /\ corpus_toks # None => TokensOk(Val(tok_text), Val(corpus_toks))
    /\ query_toks # None => TokensOk(Val(tok_text), Val(query_toks))
    /\ (corpus_toks # None /\ query_toks # None) => corpus_toks = query_toks

\* "the gaming laptop is great" has been tokenized as a chunk text and as a
\* query, and lost its two stopwords on both sides
C23_Witness ==
    /\ tok_text = Some(GreatLaptop)
    /\ corpus_toks = Some(<<Chars("gaming"), Chars("laptop"), Chars("great")>>)
    /\ query_toks = corpus_toks


-----------------------------------------------------------------------------
(* Properties of the boosts *)

\* The words of the query of the call
QueryWords == Range(_tokenize(args.query))
TitleOverlap(c) == QueryWords \cap Range(_tokenize(c.title)) # {}
SourceOverlap(c) ==
    c.source # None /\ QueryWords \cap Range(_tokenize(<<W(Val(c.source))>>)) # {}

\* C24: the final score of a candidate with base score s is s, plus s/10 if
\* a query token is in the tokenized title, plus s/20 if a query token is in
\* the tokenized source label (in twentieths of s: 20, +2, +1); it is s when
\* neither overlaps, and a chunk without source never gets the source bonus
C24_BoostAdditive ==
    pc \in {"sorted", "backfill", "done"} =>
        \A a \in 1..Len(pairs) :
            LET c == chunks[pairs[a].i]
                base == scores[pairs[a].i]
            IN  /\ 20 * pairs[a].s =
                      base * (20 + (IF TitleOverlap(c) THEN 2 ELSE 0)
                                 + (IF SourceOverlap(c) THEN 1 ELSE 0))
                /\ (~TitleOverlap(c) /\ ~SourceOverlap(c)) => pairs[a].s = base
                /\ c.source = None => 20 * pairs[a].s \in {20 * base, 22 * base}

\* A candidate whose title and source label both share a word with the query
\* has a base score of 1 and a final score of 1.15
C24_Witness ==
    /\ pc = "sorted"
    /\ \E a \in 1..Len(pairs) :
          /\ TitleOverlap(chunks[pairs[a].i]) /\ SourceOverlap(chunks[pairs[a].i])
          /\ scores[pairs[a].i] = 20 /\ pairs[a].s = 23
    /\ \E a \in 1..Len(pairs) :
          /\ chunks[pairs[a].i].source = None
          /\ scores[pairs[a].i] = 20 /\ pairs[a].s = 22


-----------------------------------------------------------------------------
(* Determinism of bm25_search *)

-----------------------------------------------------------------------------
(* Properties of _parse_price_value *)

\* The values of the numbers that stand in a string once its commas are gone
NumbersIn(cs) ==
    {FloatOf(FindNumbers(NoCommas(cs))[i]) : i \in 1..Len(FindNumbers(NoCommas(cs)))}

\* C26: _parse_price_value gives None for the empty string and for a string
\* without a digit, and otherwise the least of the numbers that stand in the
\* string once its commas are removed; "1,999" gives 1999, "1500 - 2100"
\* gives 1500, and no result is negative
C26_MinOfNumbers ==
    price_out # None =>
        LET r == Val(price_out)
        IN  /\ price_text = <<>> => r = None
            /\ (\A i \in 1..Len(price_text) : ~IsDigit(price_text[i])) <=> r = None
            /\ r # None => /\ Val(r) \in NumbersIn(price_text)
                           /\ \A v \in NumbersIn(price_text) : Val(r) <= v
                           /\ Val(r) >= 0
            /\ price_text = Price1999 => r = Some(1999 * PriceScale)
            /\ price_text = PriceRange => r = Some(1500 * PriceScale)

\* "1,999" has been parsed, and gave 1999
C26_Witness ==
    /\ price_text = Price1999
    /\ price_out = Some(Some(1999 * PriceScale))


-----------------------------------------------------------------------------
(* Deduplication in the corpus builder *)

\* The unified record of a scraped item
UnifiedOf(item) ==
    IF item.source = "Daraz" THEN unify_daraz_product(item)
    ELSE unify_startech_product(item)

\* The items the loops have been over that are the first of their id
FirstOfId ==
    {i \in 1..(next_item - 1) :
        \A h \in 1..(i - 1) : UnifiedOf(raw_items[h]).id # UnifiedOf(raw_items[i]).id}

\* The j-th smallest member of a set of numbers
Nth(I, j) == CHOOSE i \in I : Cardinality({h \in I : h <= i}) = j

\* C27: over the whole run, Daraz files before StarTech rows, every id is
\* kept and written once, the record kept is the first one met with that
\* id, and the records stand in the order in which they were first met; of
\* several CSV rows with one URL the earliest is the one in the corpus
C27_FirstWins ==
    /\ Len(all_unified_products) = Cardinality(FirstOfId)
    /\ \A j \in 1..Len(all_unified_products) :
          all_unified_products[j] = UnifiedOf(raw_items[Nth(FirstOfId, j)])
    /\ \A a, b \in 1..Len(all_unified_products) :
          a # b => all_unified_products[a].id # all_unified_products[b].id
    /\ stage \in {"written", "parsed"} =>
          /\ Len(md_text) = Len(all_unified_products)
          /\ \A j \in 1..Len(md_text) :
                /\ md_text[j].docid = Some(all_unified_products[j].id)
                /\ md_text[j].heading = Some(all_unified_products[j].title)

\* The CSV held two rows of one URL with different names, after a Daraz
\* item, and the corpus is written with the earlier row
C27_Witness ==
    /\ stage = "written"
    /\ Len(raw_items) = 3 /\ Len(md_text) = 2
    /\ raw_items[1].source = "Daraz"
    /\ raw_items[2].url = Some(UrlA) /\ raw_items[3].url = Some(UrlA)
    /\ raw_items[2].source = "StarTech"
    /\ raw_items[2].title # raw_items[3].title
    /\ md_text[2].heading = Some(raw_items[2].title)


-----------------------------------------------------------------------------
(* Readers of the index directory *)

\* C28: no call finds both cache files present and reads one of them while
\* another call has it open for writing: every load is of two finished files
C28_NoTornRead ==
    \A t \in Sessions : session[t].pc # "unpickle_failed"

-----------------------------------------------------------------------------
(* Properties of run_scraper *)

\* How many times the products of call i were handed to save_products_csv
TimesHanded(i) ==
    Cardinality({bk \in (1..Len(csv_batches)) \X (1..MaxChunkCalls + 1) :
                    /\ bk[2] <= Len(csv_batches[bk[1]])
                    /\ csv_batches[bk[1]][bk[2]].chunk = i})

\* The products of call i wait in the buffer for a flush
Buffered(i) == \E k \in 1..Len(all_products) : all_products[k].chunk = i

\* C29: run_scraper flushes the buffer whenever it holds at least BATCH_SIZE
\* products and once more at the end: between two rounds the buffer is below
\* BATCH_SIZE, every flush but the last one is of a full buffer, and when
\* run_scraper returns every chunk has had its round, the products every
\* returning process_category_chunk call gave were handed to
\* save_products_csv exactly once with nothing left waiting, and a raising
\* call handed nothing and stopped nothing.
C29_HandedExactlyOnce ==
    /\ scraper_pc = "loop" => Size(all_products) < BATCH_SIZE
    /\ \A b \in 1..Len(csv_batches) - 1 : Size(csv_batches[b]) >= BATCH_SIZE
    /\ \A i \in 1..Len(chunk_results) :
          i < chunk_i /\ ~chunk_results[i].raises /\ chunk_results[i].n > 0
              => TimesHanded(i) + (IF Buffered(i) /\ scraper_pc = "loop" THEN 1 ELSE 0) = 1
    /\ scraper_pc = "returned" =>
          /\ chunk_i = Len(chunk_results) + 1
          /\ all_products # <<>> => all_products = csv_batches[Len(csv_batches)]
          /\ \A i \in 1..Len(chunk_results) :
                TimesHanded(i) =
                    IF ~chunk_results[i].raises /\ chunk_results[i].n > 0 THEN 1 ELSE 0
          /\ \A b \in 1..Len(csv_batches) : \A k \in 1..Len(csv_batches[b]) :
                csv_batches[b][k].n = chunk_results[csv_batches[b][k].chunk].n

\* A run that returned after a full flush, a raising chunk and a last chunk
\* whose products went out with the flush at the end
C29_Witness ==
    /\ scraper_pc = "returned"
    /\ Len(chunk_results) = 3
    /\ chunk_results[1] = [raises |-> FALSE, n |-> 60]
    /\ chunk_results[2].raises
    /\ chunk_results[3] = [raises |-> FALSE, n |-> 20]
    /\ Len(csv_batches) = 2
    /\ csv_batches[2] = <<ProductsOf(3, 20)>>

-----------------------------------------------------------------------------
(* Properties of scrape_product_detail *)

\* C30: scrape_product_detail never raises and ends by returning a JSON
\* string: the invalid-URL error after no attempt at all, the extracted data
\* at the first attempt that extracts (its last attempt), or the failure
\* error after MAX_DETAIL_RETRIES attempts that all failed; it makes at most
\* MAX_DETAIL_RETRIES attempts and sleeps the retry delay only between two
\* attempts.
C30_ReturnsJsonNeverRaises ==
    /\ detail_pc # "raised"
    /\ Len(attempt_log) <= MAX_DETAIL_RETRIES
    /\ \A k \in 1..Len(attempt_log) - 1 : attempt_log[k] # "extracted"
    /\ delays = [k \in 1..Len(delays) |-> k]
    /\ Len(delays) < MAX_DETAIL_RETRIES
    /\ Len(delays) \in {Len(attempt_log) - 1, Len(attempt_log)}
    /\ detail_pc = "returned" =>
          /\ detail_ret # None
          /\ ~UrlAccepted(detail_url) =>
                detail_ret = Some(InvalidUrlJson) /\ attempt_log = <<>>
          /\ UrlAccepted(detail_url) =>
                /\ Len(delays) = Len(attempt_log) - 1
                /\ \/ /\ detail_ret = Some(ProductJson(detail_url))
                      /\ attempt_log[Len(attempt_log)] = "extracted"
                   \/ /\ detail_ret = Some(FailedJson(detail_url))
                      /\ Len(attempt_log) = MAX_DETAIL_RETRIES
                      /\ \A k \in 1..Len(attempt_log) : attempt_log[k] # "extracted"

=============================================================================
